---- MODULE Spec2Model ----
(***************************************************************************)
(* A model of loanpy's sound-correspondence applier (loanpy/scapplier.py): *)
(* the Adrc object with read_sc, adapt, reconstruct, repair_phonotactics,  *)
(* and the edit-operation helpers they rest on.                            *)
(*                                                                         *)
(* A Python str is a sequence of one-character strings, so that join,      *)
(* replace, slicing and concatenation are computed and not assumed.        *)
(* A Python list is a sequence; list index i is sequence index i + 1.      *)
(***************************************************************************)
EXTENDS Integers, Sequences, FiniteSets, TLC

\* ------------------------------------------------------------------ bounds
\* longest token sequence handed to read_sc / adapt / reconstruct
MaxLen == 2
\* largest howmany
MaxK == 6
\* largest number of occurrences recorded in sedict for one correspondence
MaxCount == 1
\* longest candidate list handed to list2regex
MaxList == 2
\* longest string handed to edit_distance_with2ops
MaxStr == 3
\* longest prosodic structure of the repair calls
MaxShape == 3
\* longest word and longest edit script of the apply_edit calls
MaxWord == 2
MaxOps == 3
\* most aligned rows of the miner's data
MaxRows == 3
\* most clusters of a word handed to the cluster-wise aligner
MaxClusters == 3

\* --------------------------------------------------------- program constants
\* float("inf") of get_diff: above every count difference and above frozen
inf == 19999999
\* the "pause/freeze button" of get_diff
frozen == 9999999

\* ------------------------------------------------------------ small helpers
Range(s) == {s[i] : i \in 1..Len(s)}

Min2(a, b) == IF a <= b THEN a ELSE b

\* dict.get(key, default)
Get(d, key, default) == IF key \in DOMAIN d THEN d[key] ELSE default

\* the sequences over S of length 0..n
SeqsUpTo(S, n) == UNION {[1..k -> S] : k \in 0..n}

\* the permutations of a finite set, as sequences (iteration orders of a set)
Perms(S) == {p \in [1..Cardinality(S) -> S] : Range(p) = S}

\* loanpy.utils.prod: the product of a list of numbers, 1 for the empty list
RECURSIVE prod(_)
prod(l) == IF l = <<>> THEN 1 ELSE l[1] * prod(Tail(l))

\* [len(scl) for scl in lists]
Lens(lists) == [i \in 1..Len(lists) |-> Len(lists[i])]

\* min(list) of a non-empty list of numbers
MinOf(l) == CHOOSE m \in Range(l) : \A v \in Range(l) : m <= v

\* sep.join(strs)
RECURSIVE join(_, _)
join(sep, strs) ==
    IF strs = <<>> THEN <<>>
    ELSE IF Len(strs) = 1 THEN strs[1]
    ELSE strs[1] \o sep \o join(sep, Tail(strs))

\* s.replace(c, "") for a one-character c
replace(s, c) == SelectSeq(s, LAMBDA ch : ch # c)

\* ---------------------------------------------------------------- the tables
\* tokens that may occur in an input word; x and y have no entry in scdict
InputTokens == { <<"k">>, <<"i">>, <<"#", "-">>, <<"x">>, <<"y">> }

\* the scdict of the generated tables: a two-candidate token, a three-candidate
\* token with a cluster candidate and the "-" placeholder, and a token whose
\* only candidate is "-"
FamilyScdict ==
    ( <<"k">> :> << <<"k">>, <<"h">> >> ) @@
    ( <<"i">> :> << <<"e">>, <<"o", ".", "u">>, <<"-">> >> ) @@
    ( <<"#", "-">> :> << <<"-">> >> )

\* the sedict keys whose count varies over the generated tables ("i -" and
\* "#- -" are never attested)
FreeKeys == { <<"k", " ", "k">>, <<"k", " ", "h">>,
              <<"i", " ", "e">>, <<"i", " ", "o", ".", "u">> }

\* a sedict holds only the correspondences that occurred at least once
Attested(f) == [key \in {k \in DOMAIN f : f[k] > 0} |-> f[key]]

\* the prosodic correspondences and the inventory of the class docstring
DocSc3 == ( <<"C", "V", "C", "V">> :> << <<"C", "V", "C">> >> )
DocInventory == << <<"C", "V">>, <<"C", "V", "V">> >>

FamilyTables ==
    { [scdict |-> FamilyScdict, sedict |-> Attested(f), sc3 |-> DocSc3] :
        f \in [FreeKeys -> 0..MaxCount] }

\* the table of read_sc's docstring
DocTable ==
    [scdict |-> ( <<"k">> :> << <<"k">>, <<"h">> >> ) @@
                ( <<"i">> :> << <<"e">>, <<"o">> >> ),
     sedict |-> ( <<"k", " ", "k">> :> 5 ) @@ ( <<"k", " ", "c">> :> 3 ) @@
                ( <<"i", " ", "e">> :> 2 ) @@ ( <<"i", " ", "o">> :> 1 ),
     sc3 |-> DocSc3]

Tables == FamilyTables \cup {DocTable}

\* ------------------------------------------------------------------- state
VARIABLES
    sc,          \* self.sc: [scdict, sedict, sc3], sc3 being self.sc[3]
    prosodic_inventory,  \* self.prosodic_inventory
    pc,          \* "idle", "loop" (outer while), "tie" (inner while), "done"
    op,          \* the method or function called ("none" when idle)
    args,        \* the arguments of the call
    ipa,         \* read_sc's ipa
    howmany,     \* read_sc's howmany
    sclistlist,  \* read_sc's remaining candidates, sentinel included
    out,         \* read_sc's committed candidates
    difflist,    \* read_sc's difflist
    difflist2,   \* read_sc's difflist2
    idxpool,     \* cycle(indices): [indices, next]
    whichsound,  \* the position move_sc moved last (0: none yet)
    ret,         \* the value read_sc returned (<<>> before it returns)
    calls,       \* how often read_sc was entered by the current call
    result,      \* [kind |-> "value" or "raise", val |-> ...] of the call
    etym,        \* the Etym object: [mode, connector, scdictbase, aligned]
    dicts        \* get_sound_corresp's scdict, sedict, edict once mined

\* the attributes of the Adrc object
self == <<sc, prosodic_inventory>>

\* the Etym object and the dicts of its get_sound_corresp
miner == <<etym, dicts>>

vars == <<sc, prosodic_inventory, pc, op, args, ipa, howmany, sclistlist, out,
          difflist, difflist2, idxpool, whichsound, ret, calls, result, etym,
          dicts>>

NoResult == [kind |-> "none", val |-> <<>>]
NoPool == [indices |-> <<>>, next |-> 1]
NoEtym == [mode |-> "none"]
NoDicts == <<>>

\* ------------------------------------------------------------------- read_sc
\* mutant of FullLists: the stop sign of line 347 is added before the test of
\* line 344
FullLists_stop(scdict, tokens) ==
    [i \in 1..Len(tokens) |-> Append(scdict[tokens[i]], <<"$">>)]

\* line 342: [self.sc[0][i] for i in ipa]
FullLists(scdict, tokens) == [i \in 1..Len(tokens) |-> scdict[tokens[i]]]

\* mutant of WithStop: no stop sign is added
WithStop_none(lists) == lists

\* line 347: [sclist + ["$"] for sclist in sclistlist]
WithStop(lists) == [i \in 1..Len(lists) |-> Append(lists[i], <<"$">>)]

\* line 349: [[i[0]] for i in sclistlist]
FirstPicks(lists) == [i \in 1..Len(lists) |-> <<lists[i][1]>>]

\* mutant of more: ">=" for ">"
more_ge(K, out_) == K >= prod(Lens(out_))

\* lines 351 and 364: howmany > prod([len(scl) for scl in out])
more(K, out_) == K > prod(Lens(out_))

\* line 204: [i for i in ipalist if i not in self.sc[0]]
missing_of(scdict, tokens) ==
    SelectSeq(tokens, LAMBDA i : i \notin DOMAIN scdict)

\* mutant of SetOrders: the list is joined, not its set
SetOrders_list(missing) == {missing}

\* line 205: the orders in which set(missing) may be iterated
SetOrders(missing) == Perms(Range(missing))

\* ------------------------------------------------------------------ get_diff
\* mutant of get_diff: without exception 2, a correspondence without data is
\* counted like any other
get_diff_nofreeze(sedict, scll, ipa_) ==
    [idx \in 1..Len(scll) |->
        LET sclist == scll[idx]
            firstsc == Get(sedict, ipa_[idx] \o <<" ">> \o sclist[1], 0)
        IN  IF Len(sclist) = 2 THEN inf
            ELSE firstsc - Get(sedict, ipa_[idx] \o <<" ">> \o sclist[2], 0)]

\* mutant of get_diff: without exception 1, a list that has reached its end
\* is counted like any other
get_diff_noinf(sedict, scll, ipa_) ==
    [idx \in 1..Len(scll) |->
        LET sclist == scll[idx]
            firstsc == Get(sedict, ipa_[idx] \o <<" ">> \o sclist[1], 0)
        IN  IF firstsc = 0 THEN frozen
            ELSE firstsc - Get(sedict, ipa_[idx] \o <<" ">> \o sclist[2], 0)]

\* lines 282-304
get_diff(sedict, scll, ipa_) ==
    [idx \in 1..Len(scll) |->
        LET sclist == scll[idx]
            firstsc == Get(sedict, ipa_[idx] \o <<" ">> \o sclist[1], 0)
        IN  IF Len(sclist) = 2 THEN inf
            ELSE IF firstsc = 0 THEN frozen
            ELSE firstsc - Get(sedict, ipa_[idx] \o <<" ">> \o sclist[2], 0)]

\* mutant of Indices: the positions of the maximum
Indices_max(dl) ==
    LET maximum == CHOOSE m \in Range(dl) : \A v \in Range(dl) : m >= v
    IN  SelectSeq([i \in 1..Len(dl) |-> i], LAMBDA i : dl[i] = maximum)

\* [i for i, v in enumerate(difflist) if v == minimum], as positions 1..n
Indices(dl) ==
    LET minimum == MinOf(dl)
    IN  SelectSeq([i \in 1..Len(dl) |-> i], LAMBDA i : dl[i] = minimum)

\* ------------------------------------------------------------------- move_sc
\* mutant of move_sc: sound #0, the one that pop(0) removes, is moved to out
move_sc_head(scll, which, out_) ==
    << [scll EXCEPT ![which] = Tail(@)],
       [out_ EXCEPT ![which] = Append(@, scll[which][1])] >>

\* mutant of move_sc: the sound is put in front of out[whichsound]
move_sc_prepend(scll, which, out_) ==
    << [scll EXCEPT ![which] = Tail(@)],
       [out_ EXCEPT ![which] = <<scll[which][2]>> \o @] >>

\* lines 432-434: returns the pair (sclistlist, out)
move_sc(scll, which, out_) ==
    << [scll EXCEPT ![which] = Tail(@)],
       [out_ EXCEPT ![which] = Append(@, scll[which][2])] >>

\* mutant of table_after_move: "$" is appended in place at line 347, so the
\* lists of sclistlist are still those of self.sc[0] and pop(0) shortens them
table_after_move_shared(table, tokens, which) ==
    [table EXCEPT !.scdict[tokens[which]] = Tail(@)]

\* the table after sclistlist[whichsound].pop(0), line 433: sclist + ["$"] at
\* line 347 built new lists, none of sclistlist is a list of self.sc[0], and
\* the table keeps its lists
table_after_move(table, tokens, which) == table

\* ------------------------------------------- read_sc, as a function of its
\* ------------------------------------------- arguments
RECURSIVE OuterWhile(_, _, _, _, _)
RECURSIVE InnerWhile(_, _, _, _, _, _, _, _)

\* lines 351-362: the outer while from its test on
OuterWhile(sedict, tokens, K, scll, out_) ==
    IF ~more(K, out_) THEN out_
    ELSE
    LET dl == get_diff(sedict, scll, tokens)
        indices == Indices(dl)
        moved == move_sc(scll, indices[1], out_)
    IN  IF Len(indices) = 1
        THEN OuterWhile(sedict, tokens, K, moved[1], moved[2])
        ELSE InnerWhile(sedict, tokens, K, scll, out_, dl, indices, 1)

\* lines 363-368: the inner while from its test on, difflist2 being the
\* differences of the lists as they are; nxt is what next(idxpool) gives
InnerWhile(sedict, tokens, K, scll, out_, dl, indices, nxt) ==
    IF get_diff(sedict, scll, tokens) = dl /\ more(K, out_)
    THEN LET moved == move_sc(scll, indices[nxt], out_)
         IN  InnerWhile(sedict, tokens, K, moved[1], moved[2], dl, indices,
                        (nxt % Len(indices)) + 1)
    ELSE OuterWhile(sedict, tokens, K, scll, out_)

\* Adrc.read_sc(ipa, howmany), lines 341-371, for tokens that scdict holds
read_sc(table, tokens, K) ==
    LET full == FullLists(table.scdict, tokens)
    IN  IF K >= prod(Lens(full)) THEN full
        ELSE OuterWhile(table.sedict, tokens, K, WithStop(full),
                        FirstPicks(WithStop(full)))

\* --------------------------------------------------------- itertools.product
\* result = [x + [y] for x in result for y in pool]
ProductStep(res, pool) ==
    [n \in 1..(Len(res) * Len(pool)) |->
        Append(res[((n - 1) \div Len(pool)) + 1],
               pool[((n - 1) % Len(pool)) + 1])]

RECURSIVE ProductFrom(_, _)
ProductFrom(res, pools) ==
    IF pools = <<>> THEN res
    ELSE ProductFrom(ProductStep(res, pools[1]), Tail(pools))

product(pools) == ProductFrom(<< <<>> >>, pools)

\* mutant of list2regex: the "." of cluster tokens is kept
list2regex_keepdot(sclist) ==
    LET s == IF <<"-">> \in Range(sclist) THEN <<")", "?">> ELSE <<")">>
        kept == SelectSeq(sclist, LAMBDA i : i # <<"-">>)
    IN  <<"(">> \o join(<<"|">>, kept) \o s

\* mutant of list2regex: "-" stays among the alternatives
list2regex_keepdash(sclist) ==
    LET s == IF <<"-">> \in Range(sclist) THEN <<")", "?">> ELSE <<")">>
        o == join(<<"|">>, [n \in 1..Len(sclist) |-> replace(sclist[n], ".")])
    IN  <<"(">> \o o \o s

\* ---------------------------------------------------------------- list2regex
list2regex(sclist) ==
    LET s == IF <<"-">> \in Range(sclist) THEN <<")", "?">> ELSE <<")">>
        kept == SelectSeq(sclist, LAMBDA i : i # <<"-">>)
        o == join(<<"|">>, [n \in 1..Len(kept) |-> replace(kept[n], ".")])
    IN  <<"(">> \o o \o s

\* ---------------------------------------------------- edit_distance_with2ops
\* the default weights of edit_distance_with2ops and mtx2graph
w_del_default == 100
w_ins_default == 49

Max2(a, b) == IF a >= b THEN a ELSE b

\* lines 486-494 for one cell (i, j) of the table L, rows and columns from 0
LCell(L, string1, string2, i, j) ==
    IF i = 0 \/ j = 0 THEN 0
    ELSE IF string1[i] = string2[j] THEN L[i - 1][j - 1] + 1
    ELSE Max2(L[i - 1][j], L[i][j - 1])

\* lines 486-494: the cells are filled row by row, from cell number k on
RECURSIVE LFill(_, _, _, _)
LFill(L, string1, string2, k) ==
    LET n == Len(string2)
        i == k \div (n + 1)
        j == k % (n + 1)
    IN  IF i > Len(string1) THEN L
        ELSE LFill([L EXCEPT ![i][j] = LCell(L, string1, string2, i, j)],
                   string1, string2, k + 1)

\* lines 482-496: the length of the longest common subsequence
LTable(string1, string2) ==
    LFill([y \in 0..Len(string1) |-> [x \in 0..Len(string2) |-> 0]],
          string1, string2, 0)

\* mutant of edit_distance_with2ops: w_del is used for both operations
edit_distance_onecost(string1, string2, w_del, w_ins) ==
    LET m == Len(string1)
        n == Len(string2)
        lcs == LTable(string1, string2)[m][n]
    IN  (m - lcs) * w_del + (n - lcs) * w_del

\* mutant of edit_distance_with2ops: the two weights change places
edit_distance_swapped(string1, string2, w_del, w_ins) ==
    LET m == Len(string1)
        n == Len(string2)
        lcs == LTable(string1, string2)[m][n]
    IN  (m - lcs) * w_ins + (n - lcs) * w_del

\* lines 482-499
edit_distance_with2ops(string1, string2, w_del, w_ins) ==
    LET m == Len(string1)
        n == Len(string2)
        lcs == LTable(string1, string2)[m][n]
    IN  (m - lcs) * w_del + (n - lcs) * w_ins

\* a call ends by returning a value or by raising an exception
Value(v) == [kind |-> "value", val |-> v]
Raise(e) == [kind |-> "raise", val |-> e]

\* ------------------------------------------------------------ str operations
KEEP == <<"k", "e", "e", "p">>
DELETE == <<"d", "e", "l", "e", "t", "e">>
INSERT == <<"i", "n", "s", "e", "r", "t">>
SUBSTITUTE == <<"s", "u", "b", "s", "t", "i", "t", "u", "t", "e">>
BY_SEP == <<" ", "b", "y", " ">>
SP == <<" ">>

\* s.startswith(pre)
StartsWith(s, pre) == Len(pre) <= Len(s) /\ SubSeq(s, 1, Len(pre)) = pre

\* where sub occurs in s
Occurs(sub, s) ==
    {i \in 1..(Len(s) - Len(sub) + 1) : SubSeq(s, i, i + Len(sub) - 1) = sub}

\* sub in s
Contains(sub, s) == Occurs(sub, s) # {}

\* s.index(sub), counted from 1
Index(s, sub) == CHOOSE i \in Occurs(sub, s) : \A k \in Occurs(sub, s) : i <= k

\* s[k:], k counted from 0
From(s, k) == SubSeq(s, k + 1, Len(s))

\* ord() of the characters compared as strings
Ord(ch) == IF ch = "C" THEN 67 ELSE IF ch = "V" THEN 86 ELSE 0

\* a < b for two str
RECURSIVE StrLess(_, _)
StrLess(a, b) ==
    IF b = <<>> THEN FALSE
    ELSE IF a = <<>> THEN TRUE
    ELSE IF a[1] = b[1] THEN StrLess(Tail(a), Tail(b))
    ELSE Ord(a[1]) < Ord(b[1])

\* ------------------------------------------------------------------ apply_edit
\* lines 537-548 from operation number i on; pos is the next letter of the
\* iterator, next(letter) past the end raises StopIteration
RECURSIVE ApplyFrom(_, _, _, _, _)
ApplyFrom(word, editops, i, out_, pos) ==
    IF i > Len(editops) THEN Value(out_)
    ELSE
    LET op_ == editops[i]
        isKeep == Contains(KEEP, op_)
        isDelete == ~isKeep /\ Contains(DELETE, op_)
        out1 == IF isKeep THEN Append(out_, word[pos]) ELSE out_
        pos1 == IF isKeep \/ isDelete THEN pos + 1 ELSE pos
        isSubstitute == Contains(SUBSTITUTE, op_)
        isInsert == ~isSubstitute /\ Contains(INSERT, op_)
        consumes == isSubstitute /\ i # Len(editops)
        out2 == IF isSubstitute THEN Append(out1, From(op_, Index(op_, BY_SEP) - 1 + 4))
                ELSE IF isInsert THEN Append(out1, From(op_, Len(INSERT \o SP)))
                ELSE out1
        pos2 == IF consumes THEN pos1 + 1 ELSE pos1
    IN  IF (isKeep \/ isDelete) /\ pos > Len(word) THEN Raise("StopIteration")
        ELSE IF isSubstitute /\ ~Contains(BY_SEP, op_) THEN Raise("ValueError")
        ELSE IF consumes /\ pos1 > Len(word) THEN Raise("StopIteration")
        ELSE ApplyFrom(word, editops, i + 1, out2, pos2)

\* mutant of apply_edit: a substitute as last operation consumes a letter too
\* (the script is replayed with one more operation, which does nothing)
apply_edit_always(word, editops) ==
    ApplyFrom(word, editops \o <<SP>>, 1, <<>>, 1)

apply_edit(word, editops) == ApplyFrom(word, editops, 1, <<>>, 1)

\* ------------------------------------------------------- substitute_operations
\* operations[i:i+2] = [merged], i counted from 1
Merge2(operations, i, merged) ==
    SubSeq(operations, 1, i - 1) \o <<merged>> \o
    SubSeq(operations, i + 2, Len(operations))

\* mutant of SubstituteFrom: "insert, delete" is merged like "delete, insert"
RECURSIVE SubstituteFrom_same(_, _)
SubstituteFrom_same(operations, i) ==
    IF ~(i < Len(operations)) THEN operations
    ELSE
    LET x == From(operations[i], 7)
        y == From(operations[i + 1], 7)
    IN  IF \/ /\ StartsWith(operations[i], DELETE \o SP)
              /\ StartsWith(operations[i + 1], INSERT \o SP)
           \/ /\ StartsWith(operations[i], INSERT \o SP)
              /\ StartsWith(operations[i + 1], DELETE \o SP)
        THEN SubstituteFrom_same(
                 Merge2(operations, i, SUBSTITUTE \o SP \o x \o BY_SEP \o y), i)
        ELSE SubstituteFrom_same(operations, i + 1)

\* lines 649-661, i counted from 1
RECURSIVE SubstituteFrom(_, _)
SubstituteFrom(operations, i) ==
    IF ~(i < Len(operations)) THEN operations
    ELSE
    LET x == From(operations[i], 7)
        y == From(operations[i + 1], 7)
    IN  IF /\ StartsWith(operations[i], DELETE \o SP)
           /\ StartsWith(operations[i + 1], INSERT \o SP)
        THEN SubstituteFrom(
                 Merge2(operations, i, SUBSTITUTE \o SP \o x \o BY_SEP \o y), i)
        ELSE IF /\ StartsWith(operations[i], INSERT \o SP)
                /\ StartsWith(operations[i + 1], DELETE \o SP)
        THEN SubstituteFrom(
                 Merge2(operations, i, SUBSTITUTE \o SP \o y \o BY_SEP \o x), i)
        ELSE SubstituteFrom(operations, i + 1)

substitute_operations(operations) == SubstituteFrom(operations, 1)

\* --------------------------------------------------------------- tuples2editops
\* lines 614-623 for step i of the path (nodes are <<row, column>>); s1 and s2
\* are the strings without the "#" that line 612 puts in front, so that
\* ("#" + s1)[k] is s1[k] here
EditOp(op_list, s1, s2, i) ==
    LET direction == << op_list[i][1] - op_list[i - 1][1],
                        op_list[i][2] - op_list[i - 1][2] >>
    IN  IF direction = <<1, 1>> THEN << KEEP \o SP \o <<s1[op_list[i][2]]>> >>
        ELSE IF direction = <<0, 1>>
        THEN << DELETE \o SP \o <<s1[op_list[i][2]]>> >>
        ELSE IF direction = <<1, 0>>
        THEN << INSERT \o SP \o <<s2[op_list[i][1]]>> >>
        ELSE <<>>

RECURSIVE EditOpsFrom(_, _, _, _)
EditOpsFrom(op_list, s1, s2, i) ==
    IF i > Len(op_list) THEN <<>>
    ELSE EditOp(op_list, s1, s2, i) \o EditOpsFrom(op_list, s1, s2, i + 1)

tuples2editops(op_list, s1, s2) ==
    substitute_operations(EditOpsFrom(op_list, s1, s2, 2))

\* ---------------------------------------------------------------------- get_mtx
\* lines 728-733 for the cell in row r and column c
MtxCell(sol, target, source, r, c) ==
    IF target[c] # source[r]
    THEN Min2(sol[r - 1][c], sol[r][c - 1]) + 1
    ELSE sol[r - 1][c - 1]

\* lines 726-733: column by column, each column row by row, from cell k on
RECURSIVE MtxFill(_, _, _, _)
MtxFill(sol, target, source, k) ==
    LET c == (k \div Len(source)) + 1
        r == (k % Len(source)) + 1
    IN  IF c > Len(target) THEN sol
        ELSE MtxFill([sol EXCEPT ![r][c] = MtxCell(sol, target, source, r, c)],
                     target, source, k + 1)

\* lines 706-736; target and source are not empty (line 721 indexes both);
\* rows and columns are counted from 0, the "#" being row 0 and column 0
get_mtx(target, source) ==
    LET zeros == [r \in 0..Len(source) |-> [c \in 0..Len(target) |-> 0]]
        edges == [r \in 0..Len(source) |-> [c \in 0..Len(target) |->
                     IF r = 0 THEN c ELSE IF c = 0 THEN r ELSE zeros[r][c]]]
        anchored == IF target[1] # source[1]
                    THEN [edges EXCEPT ![1][1] = 2]
                    ELSE edges
    IN  MtxFill(anchored, target, source, 0)

\* -------------------------------------------------------------------- mtx2graph
\* mutant of Neighbours: the two weights change places
Neighbours_swapped(matrix, rows, cols, i, j, w_del, w_ins) ==
    (IF j < cols - 1
     THEN << << <<i, j + 1>>,
                IF matrix[i][j + 1] # matrix[i][j] THEN w_ins ELSE 0 >> >>
     ELSE <<>>) \o
    (IF i < rows - 1
     THEN << << <<i + 1, j>>,
                IF matrix[i + 1][j] # matrix[i][j] THEN w_del ELSE 0 >> >>
     ELSE <<>>) \o
    (IF i < rows - 1 /\ j < cols - 1 /\ matrix[i + 1][j + 1] = matrix[i][j]
     THEN << << <<i + 1, j + 1>>, 0 >> >>
     ELSE <<>>)

\* the dict of one node: its neighbours with their weights, in insertion order
Neighbours(matrix, rows, cols, i, j, w_del, w_ins) ==
    (IF j < cols - 1
     THEN << << <<i, j + 1>>,
                IF matrix[i][j + 1] # matrix[i][j] THEN w_del ELSE 0 >> >>
     ELSE <<>>) \o
    (IF i < rows - 1
     THEN << << <<i + 1, j>>,
                IF matrix[i + 1][j] # matrix[i][j] THEN w_ins ELSE 0 >> >>
     ELSE <<>>) \o
    (IF i < rows - 1 /\ j < cols - 1 /\ matrix[i + 1][j + 1] = matrix[i][j]
     THEN << << <<i + 1, j + 1>>, 0 >> >>
     ELSE <<>>)

\* lines 818-839
mtx2graph(matrix, w_del, w_ins) ==
    LET rows == Cardinality(DOMAIN matrix)
        cols == Cardinality(DOMAIN matrix[0])
    IN  [node \in (0..(rows - 1)) \X (0..(cols - 1)) |->
            Neighbours(matrix, rows, cols, node[1], node[2], w_del, w_ins)]

\* --------------------------------------------------------------------- dijkstra
\* (d1, n1) < (d2, n2) for the tuples on the heap
HeapLess(a, b) ==
    \/ a[1] < b[1]
    \/ a[1] = b[1] /\ a[2][1] < b[2][1]
    \/ a[1] = b[1] /\ a[2][1] = b[2][1] /\ a[2][2] < b[2][2]

\* lines 902-908 for the neighbours of current_node from number k on; st holds
\* dist, path and queue
RECURSIVE Relax(_, _, _, _, _)
Relax(neighbours, current_dist, current_node, st, k) ==
    IF k > Len(neighbours) THEN st
    ELSE
    LET neighbor == neighbours[k][1]
        new_dist == current_dist + neighbours[k][2]
    IN  IF new_dist < st.dist[neighbor]
        THEN Relax(neighbours, current_dist, current_node,
                   [dist |-> [st.dist EXCEPT ![neighbor] = new_dist],
                    path |-> [n \in DOMAIN st.path \cup {neighbor} |->
                                 IF n = neighbor THEN current_node ELSE st.path[n]],
                    queue |-> st.queue \cup {<<new_dist, neighbor>>}],
                   k + 1)
        ELSE Relax(neighbours, current_dist, current_node, st, k + 1)

\* lines 896-908: heappop takes the least tuple
RECURSIVE DijkstraLoop(_, _)
DijkstraLoop(graph, st) ==
    IF st.queue = {} THEN st
    ELSE
    LET top == CHOOSE a \in st.queue :
                   \A b \in st.queue : a = b \/ HeapLess(a, b)
        popped == [st EXCEPT !.queue = @ \ {top}]
    IN  IF top[1] > st.dist[top[2]] THEN DijkstraLoop(graph, popped)
        ELSE DijkstraLoop(graph, Relax(graph[top[2]], top[1], top[2], popped, 1))

\* lines 914-917, before the reverse
RECURSIVE BackFrom(_, _, _)
BackFrom(path, start, node) ==
    IF node = start THEN <<node>>
    ELSE <<node>> \o BackFrom(path, start, path[node])

Reverse(l) == [i \in 1..Len(l) |-> l[Len(l) + 1 - i]]

\* lines 891-919: [found |-> FALSE] stands for None
dijkstra(graph, start, end) ==
    LET st == DijkstraLoop(graph,
                  [dist |-> [node \in DOMAIN graph |->
                                IF node = start THEN 0 ELSE inf],
                   path |-> [n \in {} |-> start],
                   queue |-> {<<0, start>>}])
    IN  IF end \notin DOMAIN st.path THEN [found |-> FALSE, path |-> <<>>]
        ELSE [found |-> TRUE, path |-> Reverse(BackFrom(st.path, start, end))]

\* ------------------------------------------------------ get_closest_phonotactics
\* (d1, s1) < (d2, s2) for the tuples of dist_and_strucs
DistLess(a, b) == a[1] < b[1] \/ (a[1] = b[1] /\ StrLess(a[2], b[2]))

\* mutant of get_closest_phonotactics: the two weights change places
get_closest_phonotactics_swapped(inventory, struc) ==
    LET dist_and_strucs ==
            [k \in 1..Len(inventory) |->
                <<edit_distance_with2ops(struc, inventory[k],
                                         w_ins_default, w_del_default),
                  inventory[k]>>]
        least == CHOOSE a \in Range(dist_and_strucs) :
                     \A b \in Range(dist_and_strucs) : a = b \/ DistLess(a, b)
    IN  least[2]

\* mutant of get_closest_phonotactics: min() looks at the distance only, so
\* the first of the closest members is returned
get_closest_phonotactics_first(inventory, struc) ==
    LET dist ==
            [k \in 1..Len(inventory) |->
                edit_distance_with2ops(struc, inventory[k],
                                       w_del_default, w_ins_default)]
        first == CHOOSE k \in 1..Len(inventory) :
                     /\ \A n \in 1..Len(inventory) : dist[k] <= dist[n]
                     /\ \A n \in 1..(k - 1) : dist[n] > dist[k]
    IN  inventory[first]

\* lines 396-400; the inventory is not empty
get_closest_phonotactics(inventory, struc) ==
    LET dist_and_strucs ==
            [k \in 1..Len(inventory) |->
                <<edit_distance_with2ops(struc, inventory[k],
                                         w_del_default, w_ins_default),
                  inventory[k]>>]
        least == CHOOSE a \in Range(dist_and_strucs) :
                     \A b \in Range(dist_and_strucs) : a = b \/ DistLess(a, b)
    IN  least[2]

\* ---------------------------------------------------------- repair_phonotactics
\* lines 239-242
predicted_phonotactics(sc3, inventory, prosody) ==
    IF prosody \in DOMAIN sc3 THEN sc3[prosody][1]
    ELSE get_closest_phonotactics(inventory, prosody)

\* lines 245-250
repair_phonotactics(sc3, inventory, ipalist, prosody) ==
    LET predicted == predicted_phonotactics(sc3, inventory, prosody)
        matrix == get_mtx(prosody, predicted)
        graph == mtx2graph(matrix, w_del_default, w_ins_default)
        end == <<Len(predicted), Len(prosody)>>
        found == dijkstra(graph, <<0, 0>>, end)
    IN  IF ~found.found THEN Raise("TypeError")
        ELSE apply_edit(ipalist, tuples2editops(found.path, prosody, predicted))

\* ============================================ the miner: get_sound_corresp
\* list(dict.fromkeys(l)): the distinct elements of l, each where it is first
RECURSIVE fromkeys(_)
fromkeys(l) ==
    IF l = <<>> THEN <<>>
    ELSE LET front == fromkeys(SubSeq(l, 1, Len(l) - 1))
         IN  IF l[Len(l)] \in Range(front) THEN front
             ELSE Append(front, l[Len(l)])

\* how often v stands in l
CountOf(l, v) == Cardinality({i \in 1..Len(l) : l[i] = v})

\* mutant of most_common: the values stay in the order of the rows
most_common_unsorted(x) == fromkeys(x)

\* [n[0] for n in Counter(x).most_common()]: the distinct values by falling
\* count, the sort being stable over the order in which Counter met them
most_common(x) ==
    LET seen == fromkeys(x)
        place(i) ==
            1 + Cardinality({j \in 1..Len(seen) :
                    \/ CountOf(x, seen[j]) > CountOf(x, seen[i])
                    \/ CountOf(x, seen[j]) = CountOf(x, seen[i]) /\ j < i})
    IN  [r \in 1..Len(seen) |-> seen[CHOOSE i \in 1..Len(seen) : place(i) = r]]

\* sorted(set(x)) for numbers
RECURSIVE sorted(_)
sorted(S) ==
    IF S = {} THEN <<>>
    ELSE LET least == CHOOSE a \in S : \A b \in S : a <= b
         IN  <<least>> \o sorted(S \ {least})

\* read_connector(None, mode): "<" to adapt, "<*" to reconstruct
read_connector(mode) ==
    IF mode = "reconstruct" THEN <<"<", "*">> ELSE <<"<">>

\* mutant of soundchange: keys and vals are not flipped to adapt
soundchange_unflipped(e, row) == row.keys \o e.connector \o row.vals

\* the column "soundchange" of one row, lines 239-247
soundchange(e, row) ==
    IF e.mode = "adapt" THEN row.vals \o e.connector \o row.keys
    ELSE row.keys \o e.connector \o row.vals

\* the group of groupby("keys") for the key k, in the order of the table
KeyGroup(e, k) == SelectSeq(e.aligned, LAMBDA row : row.keys = k)

\* lines 252-253 and 261: the values of every key, most common first
scdict_of(e) ==
    [k \in {e.aligned[i].keys : i \in 1..Len(e.aligned)} |->
        LET group == KeyGroup(e, k)
        IN  most_common([i \in 1..Len(group) |-> group[i].vals])]

\* the group of groupby("soundchange") for the value s
ChangeGroup(e, s) == SelectSeq(e.aligned, LAMBDA row : soundchange(e, row) = s)

\* the values of the column "soundchange"
Changes(e) == {soundchange(e, e.aligned[i]) : i \in 1..Len(e.aligned)}

\* mutant of sedict_of: a correspondence counts once for each cognate set
sedict_of_sets(e) ==
    [s \in Changes(e) |->
        LET group == ChangeGroup(e, s)
        IN  Cardinality({group[i].wordchange : i \in 1..Len(group)})]

\* lines 255 and 262: the sum of the column "e", which holds 1 in every row
sedict_of(e) ==
    [s \in Changes(e) |->
        Len(ChangeGroup(e, s))]

\* lines 257-258 and 263: the cognate sets of every correspondence
edict_of(e) ==
    [s \in Changes(e) |->
        LET group == ChangeGroup(e, s)
        IN  sorted({group[i].wordchange : i \in 1..Len(group)})]

\* lines 283-285: "C" and "V" among the values become ""
without_placeholders(scdict) ==
    [k \in DOMAIN scdict |->
        [j \in 1..Len(scdict[k]) |->
            IF scdict[k][j] \in {<<"C">>, <<"V">>} THEN <<>> ELSE scdict[k][j]]]

\* mutant of merged: the heuristic candidates come first
merged_base_first(scdict, scdictbase) ==
    [i \in DOMAIN scdictbase \cup DOMAIN scdict |->
        IF i \in DOMAIN scdictbase /\ i \in DOMAIN scdict
        THEN fromkeys(scdictbase[i] \o scdict[i])
        ELSE IF i \in DOMAIN scdictbase THEN scdictbase[i]
        ELSE scdict[i]]

\* lines 288-295: the mined candidates, then those of scdictbase
merged(scdict, scdictbase) ==
    [i \in DOMAIN scdictbase \cup DOMAIN scdict |->
        IF i \in DOMAIN scdictbase /\ i \in DOMAIN scdict
        THEN fromkeys(scdict[i] \o scdictbase[i])
        ELSE IF i \in DOMAIN scdictbase THEN scdictbase[i]
        ELSE scdict[i]]

\* lines 282-295: what the mode does to the mined scdict (self.vfb is None)
postprocessed(e, scdict) ==
    IF e.mode = "adapt"
    THEN merged(without_placeholders(scdict), e.scdictbase)
    ELSE scdict

\* ================================================ the cluster-wise aligner
HASH == <<"#">>
DOT == "."

\* s.split(c) for a one-character c
RECURSIVE split(_, _)
split(s, c) ==
    IF c \notin Range(s) THEN <<s>>
    ELSE LET k == CHOOSE i \in 1..Len(s) :
                      s[i] = c /\ \A n \in 1..(i - 1) : s[n] # c
         IN  <<SubSeq(s, 1, k - 1)>> \o split(SubSeq(s, k + 1, Len(s)), c)

\* the phonemes of the model with their classes
Consonants == {"b", "d"}
Vowels == {"a", "u"}

\* lingpy's token2class(token, "cv"): "0" for what is no sound
token2class(token) ==
    IF token = <<>> THEN "0"
    ELSE IF token[1] \in Consonants THEN "C"
    ELSE IF token[1] \in Vowels THEN "V"
    ELSE "0"

\* ipatok's tokenise(string): one token for each sound; a symbol that is no
\* sound ("#", ".") is a token of its own when unknown, dropped otherwise
tokenise(string, unknown) ==
    LET kept == SelectSeq(string,
                    LAMBDA ch : unknown \/ ch \in Consonants \cup Vowels)
    IN  [k \in 1..Len(kept) |-> <<kept[k]>>]

\* qfysc.py line 754 and apply.py line 126: both right sides are computed
\* from the list as it was, then [0] is assigned and then [-1]
tagged(clusters) ==
    LET first == HASH \o clusters[1]
        last == clusters[Len(clusters)] \o HASH
    IN  [[clusters EXCEPT ![1] = first] EXCEPT ![Len(clusters)] = last]

\* mutant of squeezed: diff is taken after the end marker is added
squeezed_late(keys, vals) ==
    IF Len(keys) < Len(vals)
    THEN LET diff == Len(vals) - (Len(keys) + 1)
         IN  [keys |-> Append(keys, <<"-">> \o HASH),
              vals |-> Append(SubSeq(vals, 1, Len(vals) - diff),
                              join(SP, SubSeq(vals, Len(vals) - diff + 1,
                                              Len(vals))))]
    ELSE IF Len(keys) > Len(vals)
    THEN LET diff == Len(keys) - (Len(vals) + 1)
         IN  [keys |-> Append(SubSeq(keys, 1, Len(keys) - diff),
                              join(SP, SubSeq(keys, Len(keys) - diff + 1,
                                              Len(keys)))),
              vals |-> Append(vals, <<"-">>)]
    ELSE [keys |-> Append(keys, <<"-">> \o HASH), vals |-> Append(vals, <<"-">>)]

\* lines 773-781
squeezed(keys, vals) ==
    LET diff == IF Len(vals) >= Len(keys) THEN Len(vals) - Len(keys)
                ELSE Len(keys) - Len(vals)
    IN  IF Len(keys) < Len(vals)
        THEN [keys |-> Append(keys, <<"-">> \o HASH),
              vals |-> Append(SubSeq(vals, 1, Len(vals) - diff),
                              join(SP, SubSeq(vals, Len(vals) - diff + 1,
                                              Len(vals))))]
        ELSE IF Len(keys) > Len(vals)
        THEN [keys |-> Append(SubSeq(keys, 1, Len(keys) - diff),
                              join(SP, SubSeq(keys, Len(keys) - diff + 1,
                                              Len(keys)))),
              vals |-> Append(vals, <<"-">>)]
        ELSE [keys |-> Append(keys, <<"-">> \o HASH),
              vals |-> Append(vals, <<"-">>)]

\* Etym.align_clusterwise(left, right), lines 750-783; unknown says what
\* tokenise does with a symbol that is no sound
align_clusterwise(left, right, unknown) ==
    LET keys0 == <<<<"#", "-">>>> \o tagged(split(left, " "))
        vals0 == <<<<"-">>>> \o split(right, " ")
        keyfirst == replace(split(keys0[2], DOT)[1], "#")
        valfirst == split(vals0[2], DOT)[1]
        keytokens == tokenise(Tail(keys0[2]), unknown)
        valtokens == tokenise(vals0[2], unknown)
    IN  IF token2class(keyfirst) = "V" /\ token2class(valfirst) = "C"
        THEN Value(squeezed(keys0, Tail(vals0)))
        ELSE IF keytokens = <<>> THEN Raise("IndexError")
        ELSE IF token2class(keytokens[1]) # "C"
        THEN Value(squeezed(keys0, vals0))
        ELSE IF valtokens = <<>> THEN Raise("IndexError")
        ELSE IF token2class(valtokens[1]) = "V"
        THEN Value(squeezed(Tail(keys0), vals0))
        ELSE Value(squeezed(keys0, vals0))

\* Adrc.reconstruct of apply.py, lines 125-127: the input with its tags
uralign_tags(ipastr) ==
    Append(tagged(split(ipastr, " ")), <<"-">> \o HASH)

\* ------------------------------------------------------- the callers' tails
\* mutant of AdaptTail: the leftover is not cut off
AdaptTail_all(lists, K) ==
    LET words == product(lists)
    IN  [n \in 1..Len(words) |-> replace(join(<<>>, words[n]), "-")]

\* adapt, lines 160-161
AdaptTail(lists, K) ==
    LET words == product(lists)
        strs == [n \in 1..Len(words) |-> replace(join(<<>>, words[n]), "-")]
    IN  SubSeq(strs, 1, Min2(K, Len(strs)))

\* reconstruct, lines 210-211
ReconstructTail(lists) ==
    LET kept == SelectSeq(lists, LAMBDA i : i # << <<"-">> >>)
        o == join(<<>>, [n \in 1..Len(kept) |-> list2regex(kept[n])])
    IN  <<"^">> \o o \o <<"$">>

\* what the caller makes of read_sc's return value
Finish(o, lists, K) ==
    IF o = "adapt" THEN AdaptTail(lists, K)
    ELSE IF o = "reconstruct" THEN ReconstructTail(lists)
    ELSE lists

\* ------------------------------------------------------------ the applier
Words == SeqsUpTo(InputTokens, MaxLen)

Init ==
    /\ sc \in Tables
    /\ prosodic_inventory = DocInventory
    /\ pc = "idle"
    /\ op = "none"
    /\ args = <<>>
    /\ ipa = <<>>
    /\ howmany = 0
    /\ sclistlist = <<>>
    /\ out = <<>>
    /\ difflist = <<>>
    /\ difflist2 = <<>>
    /\ idxpool = NoPool
    /\ whichsound = 0
    /\ ret = <<>>
    /\ calls = 0
    /\ result = NoResult
    /\ etym = NoEtym
    /\ dicts = NoDicts

\* mutant of missing_key: the lookup is caught and an empty result returned
missing_key_caught(o) == Value(<<>>)

\* self.sc[0][i] at line 342 for a token i that scdict does not hold, in a call
\* of the method o: nothing catches the KeyError, in read_sc or in adapt
missing_key(o) == Raise("KeyError")

\* read_sc, lines 341-349, entered by the method o; an early return or a
\* KeyError ends the call at once
ReadScEnter(o, tokens, K) ==
    /\ op' = o
    /\ args' = [ipastr |-> tokens, howmany |-> K]
    /\ ipa' = tokens
    /\ howmany' = K
    /\ calls' = 1
    /\ difflist' = <<>>
    /\ difflist2' = <<>>
    /\ idxpool' = NoPool
    /\ whichsound' = 0
    /\ UNCHANGED <<self, miner>>
    /\ IF \E i \in 1..Len(tokens) : tokens[i] \notin DOMAIN sc.scdict
       THEN /\ pc' = "done"
            /\ result' = missing_key(o)
            /\ sclistlist' = <<>>
            /\ out' = <<>>
            /\ ret' = <<>>
       ELSE LET full == FullLists(sc.scdict, tokens)
            IN  IF K >= prod(Lens(full))
                THEN /\ pc' = "done"
                     /\ sclistlist' = full
                     /\ out' = <<>>
                     /\ ret' = full
                     /\ result' = Value(Finish(o, full, K))
                ELSE /\ pc' = "loop"
                     /\ sclistlist' = WithStop(full)
                     /\ out' = FirstPicks(WithStop(full))
                     /\ ret' = <<>>
                     /\ result' = NoResult

\* Adrc.read_sc(ipa, howmany)
CallReadSc ==
    /\ pc = "idle"
    /\ \E tokens \in Words, K \in 0..MaxK : ReadScEnter("read_sc", tokens, K)

\* Adrc.adapt(ipastr, howmany) without prosody: lines 156-159
CallAdapt ==
    /\ pc = "idle"
    /\ \E tokens \in Words, K \in 0..MaxK : ReadScEnter("adapt", tokens, K)

\* Adrc.reconstruct(ipastr, howmany): lines 200-208; set(missing) is joined in
\* the set's iteration order, which is any order
CallReconstruct ==
    /\ pc = "idle"
    /\ \E tokens \in Words, K \in 0..MaxK :
          LET missing == missing_of(sc.scdict, tokens)
          IN  IF missing # <<>>
              THEN /\ \E p \in SetOrders(missing) :
                        result' = Value(join(<<",", " ">>, p) \o
                                    <<" ", "n", "o", "t", " ", "o", "l", "d">>)
                   /\ pc' = "done"
                   /\ op' = "reconstruct"
                   /\ args' = [ipastr |-> tokens, howmany |-> K]
                   /\ ipa' = tokens
                   /\ howmany' = K
                   /\ calls' = 0
                   /\ UNCHANGED <<self, miner, sclistlist, out, difflist, difflist2,
                                  idxpool, whichsound, ret>>
              ELSE ReadScEnter("reconstruct", tokens, K)

\* move_sc called with whichsound = w: an IndexError when the remaining list
\* has no element 1
Move(w) ==
    IF Len(sclistlist[w]) < 2
    THEN /\ pc' = "done"
         /\ result' = Raise("IndexError")
         /\ UNCHANGED <<sc, sclistlist, out, whichsound>>
    ELSE LET moved == move_sc(sclistlist, w, out)
         IN  /\ sclistlist' = moved[1]
             /\ out' = moved[2]
             /\ sc' = table_after_move(sc, ipa, w)
             /\ whichsound' = w
             /\ UNCHANGED <<pc, result>>

\* the outer while of read_sc, lines 351-359, when one position is the minimum
CommitSingle ==
    /\ pc = "loop"
    /\ more(howmany, out)
    /\ LET dl == get_diff(sc.sedict, sclistlist, ipa)
           indices == Indices(dl)
       IN  /\ Len(indices) = 1
           /\ difflist' = dl
           /\ Move(indices[1])
    /\ UNCHANGED <<prosodic_inventory, miner, op, args, ipa, howmany, difflist2,
                   idxpool, ret, calls>>

\* lines 351-362, when several positions are the minimum
EnterTie ==
    /\ pc = "loop"
    /\ more(howmany, out)
    /\ LET dl == get_diff(sc.sedict, sclistlist, ipa)
           indices == Indices(dl)
       IN  /\ Len(indices) > 1
           /\ difflist' = dl
           /\ difflist2' = dl
           /\ idxpool' = [indices |-> indices, next |-> 1]
    /\ pc' = "tie"
    /\ UNCHANGED <<self, miner, op, args, ipa, howmany, sclistlist, out, whichsound,
                   ret, calls, result>>

\* one pass of the inner while, lines 363-368
TieStep ==
    /\ pc = "tie"
    /\ difflist2 = difflist
    /\ more(howmany, out)
    /\ Move(idxpool.indices[idxpool.next])
    /\ idxpool' = [idxpool EXCEPT !.next = (@ % Len(idxpool.indices)) + 1]
    /\ difflist2' = get_diff(sc'.sedict, sclistlist', ipa)
    /\ UNCHANGED <<prosodic_inventory, miner, op, args, ipa, howmany, difflist, ret,
                   calls>>

\* the inner while ends: back to the test of the outer while
TieExit ==
    /\ pc = "tie"
    /\ ~(difflist2 = difflist /\ more(howmany, out))
    /\ pc' = "loop"
    /\ UNCHANGED <<self, miner, op, args, ipa, howmany, sclistlist, out, difflist,
                   difflist2, idxpool, whichsound, ret, calls, result>>

\* the outer while ends: read_sc returns out (line 371) and the caller
\* finishes (adapt 160-161, reconstruct 210-211)
LoopExit ==
    /\ pc = "loop"
    /\ ~more(howmany, out)
    /\ ret' = out
    /\ result' = Value(Finish(op, out, howmany))
    /\ pc' = "done"
    /\ UNCHANGED <<self, miner, op, args, ipa, howmany, sclistlist, out, difflist,
                   difflist2, idxpool, whichsound, calls>>

\* the call has returned; the object waits for the next call
Return ==
    /\ pc = "done"
    /\ pc' = "idle"
    /\ op' = "none"
    /\ args' = <<>>
    /\ ipa' = <<>>
    /\ howmany' = 0
    /\ sclistlist' = <<>>
    /\ out' = <<>>
    /\ difflist' = <<>>
    /\ difflist2' = <<>>
    /\ idxpool' = NoPool
    /\ whichsound' = 0
    /\ ret' = <<>>
    /\ calls' = 0
    /\ result' = NoResult
    /\ dicts' = NoDicts
    /\ UNCHANGED <<self, etym>>

Next ==
    \/ CallReadSc
    \/ CallAdapt
    \/ CallReconstruct
    \/ CommitSingle
    \/ EnterTie
    \/ TieStep
    \/ TieExit
    \/ LoopExit
    \/ Return

Spec == Init /\ [][Next]_vars

\* a step of read_sc's loops, lines 351-371
ReadScStep ==
    \/ CommitSingle
    \/ EnterTie
    \/ TieStep
    \/ TieExit
    \/ LoopExit

\* read_sc called on its own, again and again
LiveNext ==
    \/ CallReadSc
    \/ ReadScStep
    \/ Return

\* a call that has entered its loop goes on running: the code has no
\* suspension point between two statements
SpecLive == Init /\ [][LiveNext]_vars /\ WF_vars(ReadScStep)

\* ------------------------------------------- the module's functions, called
\* ------------------------------------------- on their own
\* the tokens of a candidate list: plain, cluster, placeholder
RegexTokens == { <<"b">>, <<"k">>, <<"k", ".", "v">>, <<"-">> }

\* the strings compared: all over h, e, y up to MaxStr, and the docstring's
Letters == {"h", "e", "y"}
Strings == SeqsUpTo(Letters, MaxStr) \cup {<<"h", "e", "y", "y">>}

\* the weights tried: the defaults, their swap, and 1
Costs == {1, w_ins_default, w_del_default}

FnInit ==
    /\ sc = DocTable
    /\ prosodic_inventory = DocInventory
    /\ pc = "idle"
    /\ op = "none"
    /\ args = <<>>
    /\ ipa = <<>>
    /\ howmany = 0
    /\ sclistlist = <<>>
    /\ out = <<>>
    /\ difflist = <<>>
    /\ difflist2 = <<>>
    /\ idxpool = NoPool
    /\ whichsound = 0
    /\ ret = <<>>
    /\ calls = 0
    /\ result = NoResult
    /\ etym = NoEtym
    /\ dicts = NoDicts

\* a function of the module is called with arguments a and returns v
FnCall(f, a, v) ==
    /\ pc' = "done"
    /\ op' = f
    /\ args' = a
    /\ result' = Value(v)
    /\ UNCHANGED <<self, miner, ipa, howmany, sclistlist, out, difflist, difflist2,
                   idxpool, whichsound, ret, calls>>

\* list2regex(sclist)
CallList2regex ==
    /\ pc = "idle"
    /\ \E sclist \in SeqsUpTo(RegexTokens, MaxList) :
          FnCall("list2regex", [sclist |-> sclist], list2regex(sclist))

\* edit_distance_with2ops(string1, string2, w_del, w_ins)
CallEditDistance ==
    /\ pc = "idle"
    /\ \E string1 \in Strings, string2 \in Strings,
          w_del \in Costs, w_ins \in Costs :
          FnCall("edit_distance_with2ops",
                 [string1 |-> string1, string2 |-> string2,
                  w_del |-> w_del, w_ins |-> w_ins],
                 edit_distance_with2ops(string1, string2, w_del, w_ins))

FnNext ==
    \/ CallList2regex
    \/ CallEditDistance
    \/ Return

SpecFn == FnInit /\ [][FnNext]_vars

\* ============================================ the applier's prosodic repair
\* the prosodic structures: non-empty strings of "C" and "V"
Shapes == SeqsUpTo({"C", "V"}, MaxShape) \ {<<>>}

\* sc[3] and the prosodic inventory of the Adrc object: the documented pair, a
\* table of one structure, or no table and an inventory of one or two
\* structures
RepairSettings ==
    {<<DocSc3, DocInventory>>}
    \cup {<<(P :> <<T>>), DocInventory>> : P \in Shapes, T \in Shapes}
    \cup {<< <<>>, <<m>> >> : m \in Shapes}
    \cup {<< <<>>, <<m, n>> >> : m \in Shapes, n \in Shapes}

\* a word of the prosodic structure: "t" for every C, "a" for every V
Phonemes(prosody) ==
    [i \in 1..Len(prosody) |-> IF prosody[i] = "C" THEN <<"t">> ELSE <<"a">>]

RepairInit ==
    /\ \E setting \in RepairSettings :
          /\ sc = [DocTable EXCEPT !.sc3 = setting[1]]
          /\ prosodic_inventory = setting[2]
    /\ pc = "idle"
    /\ op = "none"
    /\ args = <<>>
    /\ ipa = <<>>
    /\ howmany = 0
    /\ sclistlist = <<>>
    /\ out = <<>>
    /\ difflist = <<>>
    /\ difflist2 = <<>>
    /\ idxpool = NoPool
    /\ whichsound = 0
    /\ ret = <<>>
    /\ calls = 0
    /\ result = NoResult
    /\ etym = NoEtym
    /\ dicts = NoDicts

\* Adrc.repair_phonotactics(ipalist, prosody)
CallRepairPhonotactics ==
    /\ pc = "idle"
    /\ \E prosody \in Shapes :
          /\ pc' = "done"
          /\ op' = "repair_phonotactics"
          /\ args' = [ipalist |-> Phonemes(prosody), prosody |-> prosody]
          /\ result' = repair_phonotactics(sc.sc3, prosodic_inventory,
                                           Phonemes(prosody), prosody)
          /\ UNCHANGED <<self, miner, ipa, howmany, sclistlist, out, difflist,
                         difflist2, idxpool, whichsound, ret, calls>>

RepairNext ==
    \/ CallRepairPhonotactics
    \/ Return

SpecRepair == RepairInit /\ [][RepairNext]_vars

\* ============================================ the closest prosodic structure
\* the members of the prosodic inventories: the structures of one or two
\* symbols and the two longer ones of the docstrings
MemberShapes ==
    (SeqsUpTo({"C", "V"}, 2) \ {<<>>})
    \cup {<<"C", "V", "V">>, <<"C", "V", "C", "V">>}

\* the prosodic inventories: one or two members
Inventories ==
    {<<m>> : m \in MemberShapes}
    \cup {<<m, n>> : m \in MemberShapes, n \in MemberShapes}

ClosestInit ==
    /\ sc = DocTable
    /\ prosodic_inventory \in Inventories
    /\ pc = "idle"
    /\ op = "none"
    /\ args = <<>>
    /\ ipa = <<>>
    /\ howmany = 0
    /\ sclistlist = <<>>
    /\ out = <<>>
    /\ difflist = <<>>
    /\ difflist2 = <<>>
    /\ idxpool = NoPool
    /\ whichsound = 0
    /\ ret = <<>>
    /\ calls = 0
    /\ result = NoResult
    /\ etym = NoEtym
    /\ dicts = NoDicts

\* Adrc.get_closest_phonotactics(struc)
CallGetClosestPhonotactics ==
    /\ pc = "idle"
    /\ \E struc \in Shapes :
          /\ pc' = "done"
          /\ op' = "get_closest_phonotactics"
          /\ args' = [struc |-> struc]
          /\ result' = Value(get_closest_phonotactics(prosodic_inventory, struc))
          /\ UNCHANGED <<self, miner, ipa, howmany, sclistlist, out, difflist,
                         difflist2, idxpool, whichsound, ret, calls>>

ClosestNext ==
    \/ CallGetClosestPhonotactics
    \/ Return

SpecClosest == ClosestInit /\ [][ClosestNext]_vars

\* ================================================== the edit scripts replayed
\* the phonemes of the words; "o" is written for the docstring's o-acute
EditLetters == {<<"l">>, <<"o">>}

\* the operations of the scripts
EditOperations ==
    {KEEP \o SP \o <<"l">>, KEEP \o SP \o <<"o">>,
     DELETE \o SP \o <<"l">>, INSERT \o SP \o <<"h">>,
     SUBSTITUTE \o SP \o <<"l">> \o BY_SEP \o <<"h">>}

\* apply_edit(word, editops)
CallApplyEdit ==
    /\ pc = "idle"
    /\ \E word \in SeqsUpTo(EditLetters, MaxWord),
          editops \in SeqsUpTo(EditOperations, MaxOps) :
          /\ pc' = "done"
          /\ op' = "apply_edit"
          /\ args' = [word |-> word, editops |-> editops]
          /\ result' = apply_edit(word, editops)
          /\ UNCHANGED <<self, miner, ipa, howmany, sclistlist, out, difflist,
                         difflist2, idxpool, whichsound, ret, calls>>

EditNext ==
    \/ CallApplyEdit
    \/ Return

SpecEdit == FnInit /\ [][EditNext]_vars

\* ============================================================== the miner
\* the aligned rows: what self.align gives for the word pairs of self.dfety,
\* one after the other, each row with the cognate set of its pair
RowKeys == {<<"a">>, <<"b">>}
RowVals == {<<"x">>, <<"y">>, <<"C">>}
Cognacy == {12, 13}
Rows == [keys : RowKeys, vals : RowVals, wordchange : Cognacy]

\* at least one row: concat has something to join
AlignedTables == SeqsUpTo(Rows, MaxRows) \ {<<>>}

\* self.scdictbase: none, or heuristic candidates of a mined token and of a
\* token that the data does not hold
Bases == { <<>>, (<<"a">> :> << <<"y">>, <<"z">> >>) @@ (<<"c">> :> << <<"z">> >>) }

Etyms ==
    {[mode |-> mode, connector |-> read_connector(mode),
      scdictbase |-> scdictbase, aligned |-> aligned] :
        mode \in {"adapt", "reconstruct"}, scdictbase \in Bases,
        aligned \in AlignedTables}

MinerInit ==
    /\ etym \in Etyms
    /\ dicts = NoDicts
    /\ sc = DocTable
    /\ prosodic_inventory = DocInventory
    /\ pc = "idle"
    /\ op = "none"
    /\ args = <<>>
    /\ ipa = <<>>
    /\ howmany = 0
    /\ sclistlist = <<>>
    /\ out = <<>>
    /\ difflist = <<>>
    /\ difflist2 = <<>>
    /\ idxpool = NoPool
    /\ whichsound = 0
    /\ ret = <<>>
    /\ calls = 0
    /\ result = NoResult

\* Etym.get_sound_corresp(), lines 232-263: the three dicts are mined
MineRows ==
    /\ pc = "idle"
    /\ pc' = "mined"
    /\ op' = "get_sound_corresp"
    /\ dicts' = [scdict |-> scdict_of(etym), sedict |-> sedict_of(etym),
                 edict |-> edict_of(etym)]
    /\ UNCHANGED <<self, etym, args, ipa, howmany, sclistlist, out, difflist,
                   difflist2, idxpool, whichsound, ret, calls, result>>

\* lines 265-298: the mode's work on scdict, and the first three dicts of the
\* result
PostProcess ==
    /\ pc = "mined"
    /\ pc' = "done"
    /\ result' = Value([scdict |-> postprocessed(etym, dicts.scdict),
                        sedict |-> dicts.sedict, edict |-> dicts.edict])
    /\ UNCHANGED <<self, miner, op, args, ipa, howmany, sclistlist, out,
                   difflist, difflist2, idxpool, whichsound, ret, calls>>

MinerNext ==
    \/ MineRows
    \/ PostProcess
    \/ Return

SpecMiner == MinerInit /\ [][MinerNext]_vars

\* ============================================ the edit scripts derived
\* the two strings compared: not empty (get_mtx line 721 reads the first
\* symbol of both)
ScriptStrings == SeqsUpTo({"a", "b"}, MaxStr) \ {<<>>}

\* the weights (w_del, w_ins): the defaults, their swap, equal weights, and
\* an insertion dearer than two deletions
CostPairs ==
    {<<w_del_default, w_ins_default>>, <<w_ins_default, w_del_default>>,
     <<1, 1>>, <<1, 3>>}

\* the operations of the scripts handed to substitute_operations
ScriptOperations ==
    {INSERT \o SP \o <<"A">>, DELETE \o SP \o <<"B">>, INSERT \o SP \o <<"C">>,
     DELETE \o SP \o <<"A">>, KEEP \o SP \o <<"D">>}

\* mtx2graph(get_mtx(target, source))
CallMtx2graph ==
    /\ pc = "idle"
    /\ \E target \in ScriptStrings, source \in ScriptStrings :
          LET matrix == get_mtx(target, source)
          IN  FnCall("mtx2graph",
                     [target |-> target, source |-> source, matrix |-> matrix],
                     mtx2graph(matrix, w_del_default, w_ins_default))

\* dijkstra(mtx2graph(get_mtx(target, source), w_del, w_ins), (0, 0), end),
\* end being the bottom-right cell as at lines 245-248
CallDijkstra ==
    /\ pc = "idle"
    /\ \E target \in ScriptStrings, source \in ScriptStrings,
          w \in CostPairs :
          LET graph == mtx2graph(get_mtx(target, source), w[1], w[2])
              end == <<Len(source), Len(target)>>
          IN  FnCall("dijkstra",
                     [target |-> target, source |-> source,
                      w_del |-> w[1], w_ins |-> w[2]],
                     dijkstra(graph, <<0, 0>>, end))

\* substitute_operations(operations)
CallSubstituteOperations ==
    /\ pc = "idle"
    /\ \E operations \in SeqsUpTo(ScriptOperations, MaxOps) :
          FnCall("substitute_operations", [operations |-> operations],
                 substitute_operations(operations))

ScriptNext ==
    \/ CallMtx2graph
    \/ CallDijkstra
    \/ CallSubstituteOperations
    \/ Return

SpecScript == FnInit /\ [][ScriptNext]_vars

\* ================================================ the aligner's words
\* the clusters of a word: consonants or vowels, the sounds joined by "."
ConsonantClusters == {<<"b">>, <<"b", ".", "d">>}
VowelClusters == {<<"a">>, <<"a", ".", "u">>}

\* the words as lists of clusters, consonant and vowel clusters in turn,
\* starting with either
ClusterWords ==
    {w \in SeqsUpTo(ConsonantClusters \cup VowelClusters, MaxClusters) :
        /\ w # <<>>
        /\ \A k \in 1..(Len(w) - 1) :
               (w[k] \in ConsonantClusters) # (w[k + 1] \in ConsonantClusters)}

\* Etym.align_clusterwise(left, right), the clusters joined by blanks
CallAlignClusterwise ==
    /\ pc = "idle"
    /\ \E l \in ClusterWords, r \in ClusterWords, unknown \in BOOLEAN :
          /\ pc' = "done"
          /\ op' = "align_clusterwise"
          /\ args' = [left |-> join(SP, l), right |-> join(SP, r),
                      unknown |-> unknown]
          /\ result' = align_clusterwise(join(SP, l), join(SP, r), unknown)
          /\ UNCHANGED <<self, miner, ipa, howmany, sclistlist, out, difflist,
                         difflist2, idxpool, whichsound, ret, calls>>

\* the tagging of Adrc.reconstruct's input in apply.py
CallUralignTags ==
    /\ pc = "idle"
    /\ \E w \in ClusterWords :
          FnCall("reconstruct_tags", [ipastr |-> join(SP, w)],
                 uralign_tags(join(SP, w)))

AlignNext ==
    \/ CallAlignClusterwise
    \/ CallUralignTags
    \/ Return

SpecAlign == FnInit /\ [][AlignNext]_vars

\* ======================================================= claims on Spec
AllKnown == \A i \in 1..Len(ipa) : ipa[i] \in DOMAIN sc.scdict

\* the full candidate list of every position, in table order
TableLists == [i \in 1..Len(ipa) |-> sc.scdict[ipa[i]]]

\* the size of the full cross-product
FullSize == prod(Lens(TableLists))

IsPrefix(a, b) == Len(a) <= Len(b) /\ a = SubSeq(b, 1, Len(a))

EndsWith(s, t) == Len(t) <= Len(s) /\ SubSeq(s, Len(s) - Len(t) + 1, Len(s)) = t

NOT_OLD == <<" ", "n", "o", "t", " ", "o", "l", "d">>

\* read_sc has returned to its caller
ReadScReturned == pc = "done" /\ calls = 1 /\ AllKnown

\* C1: whenever howmany is at least the size of the full cross-product, read_sc
\* returns exactly the full candidate list of every position, in table order,
\* with no sentinel added and nothing removed.
C1_FullLists ==
    (ReadScReturned /\ howmany >= FullSize) =>
        /\ result.kind = "value"
        /\ ret = TableLists
        /\ (op = "read_sc" => result.val = TableLists)

C1_Witness ==
    /\ ReadScReturned /\ op = "read_sc" /\ Len(ipa) = 2
    /\ FullSize >= 4 /\ howmany >= FullSize
    /\ result = Value(TableLists)

\* the cross-product sizes that non-empty prefixes of the candidate lists give
Achievable ==
    LET n == Len(ipa)
        longest == CHOOSE m \in 0..8 :
                       /\ \A i \in 1..n : Len(TableLists[i]) <= m
                       /\ \A k \in 0..(m - 1) :
                             \E i \in 1..n : Len(TableLists[i]) > k
    IN  {prod(l) : l \in {f \in [1..n -> 1..longest] :
                              \A i \in 1..n : f[i] <= Len(TableLists[i])}}

SmallestFrom(k) == CHOOSE a \in Achievable :
                       a >= k /\ \A b \in Achievable : b >= k => a <= b

\* C2 as stated: the cross-product size of read_sc's output is the smallest
\* achievable value >= min(howmany, full size).
C2_Original ==
    ReadScReturned =>
        prod(Lens(ret)) = SmallestFrom(Min2(howmany, FullSize))

\* C2 amended: the output is a non-empty prefix of every candidate list and
\* its cross-product size is >= min(howmany, full size); it is the full size
\* when howmany >= full size, 1 when nothing was committed, and otherwise the
\* first size >= howmany that the greedy commits reach: taking back the last
\* commit gives a size < howmany.
C2_FirstReached ==
    ReadScReturned =>
        /\ result.kind = "value"
        /\ Len(ret) = Len(ipa)
        /\ \A i \in 1..Len(ret) : ret[i] # <<>> /\ IsPrefix(ret[i], TableLists[i])
        /\ prod(Lens(ret)) >= Min2(howmany, FullSize)
        /\ (howmany >= FullSize => prod(Lens(ret)) = FullSize)
        /\ (howmany < FullSize /\ whichsound = 0 => prod(Lens(ret)) = 1)
        /\ (whichsound # 0 =>
              prod(Lens([ret EXCEPT ![whichsound] = SubSeq(@, 1, Len(@) - 1)]))
                  < howmany)

\* the greedy output is larger than the smallest achievable size
C2_Witness ==
    /\ ReadScReturned /\ whichsound # 0
    /\ prod(Lens(ret)) > SmallestFrom(Min2(howmany, FullSize))

\* the sedict count of position p's candidate number n (0 if not attested)
Count(p, n) == Get(sc.sedict, ipa[p] \o <<" ">> \o TableLists[p][n], 0)

\* the frequency difference of position p as read_sc sees it: the count of its
\* currently committed candidate minus the count of its next uncommitted one;
\* inf when no candidate is left, 9999999 when the current count is 0
Difference(p) ==
    LET cur == Len(out[p])
    IN  IF cur = Len(TableLists[p]) THEN inf
        ELSE IF Count(p, cur) = 0 THEN frozen
        ELSE Count(p, cur) - Count(p, cur + 1)

\* position p alone has the minimum difference
OnlyMinimum(p) ==
    \A q \in 1..Len(out) : q # p => Difference(p) < Difference(q)

\* C3: in the greedy loop, whenever exactly one position has the minimum
\* frequency difference, the next candidate committed is that position's next
\* candidate; and with the docstring's table read_sc(["k","i"], 2) is
\* [["k"], ["e","o"]].
C3_UniqueMinimum ==
    /\ [][\A p \in 1..Len(out) :
            (pc = "loop" /\ more(howmany, out) /\ OnlyMinimum(p)) =>
                /\ out' = [out EXCEPT
                              ![p] = Append(@, TableLists[p][Len(out[p]) + 1])]
                /\ whichsound' = p]_vars
    /\ [](( /\ pc = "done" /\ op = "read_sc" /\ sc = DocTable
            /\ ipa = << <<"k">>, <<"i">> >> /\ howmany = 2 ) =>
                result = Value(<< << <<"k">> >>, << <<"e">>, <<"o">> >> >>))

C3_Witness ==
    /\ pc = "done" /\ op = "read_sc" /\ sc = DocTable
    /\ ipa = << <<"k">>, <<"i">> >> /\ howmany = 2
    /\ whichsound = 2
    /\ result = Value(<< << <<"k">> >>, << <<"e">>, <<"o">> >> >>)

\* word number n (from 0) of the odometer order over lists: the last position
\* cycles fastest
OdometerWord(lists, n) ==
    [i \in 1..Len(lists) |->
        lists[i][((n \div prod(Lens(SubSeq(lists, i + 1, Len(lists)))))
                     % Len(lists[i])) + 1]]

\* the characters of a word's tokens, without "-"
RECURSIVE Flat(_)
Flat(word) ==
    IF word = <<>> THEN <<>>
    ELSE Flat(SubSeq(word, 1, Len(word) - 1)) \o
         SelectSeq(word[Len(word)], LAMBDA ch : ch # "-")

\* C4: adapt without a target shape returns exactly min(howmany, N) strings, N
\* the size of the full cross-product: the first ones of the odometer-order
\* product of read_sc's lists, with "-" removed.
C4_AdaptCount ==
    (pc = "done" /\ op = "adapt" /\ AllKnown) =>
        /\ result.kind = "value"
        /\ Len(result.val) = Min2(howmany, FullSize)
        /\ Len(result.val) <= howmany
        /\ \A n \in 1..Len(result.val) :
              result.val[n] = Flat(OdometerWord(ret, n - 1))

\* adapt cut off a leftover
C4_Witness ==
    /\ pc = "done" /\ op = "adapt" /\ AllKnown /\ Len(ipa) = 2
    /\ howmany = 3 /\ prod(Lens(ret)) = 4 /\ Len(result.val) = 3

Group(list, strip) ==
    LET others == SelectSeq(list, LAMBDA t : t # <<"-">>)
        alts == [n \in 1..Len(others) |->
                    IF strip THEN SelectSeq(others[n], LAMBDA ch : ch # ".")
                    ELSE others[n]]
    IN  IF others = <<>> THEN <<>>
        ELSE <<"(">> \o join(<<"|">>, alts) \o
             (IF Len(others) < Len(list) THEN <<")", "?">> ELSE <<")">>)

RECURSIVE Groups(_, _)
Groups(lists, strip) ==
    IF lists = <<>> THEN <<>>
    ELSE Group(lists[1], strip) \o Groups(Tail(lists), strip)

\* C6 as stated: reconstruct returns "^" + G1 + ... + Gn + "$", where a list of
\* only "-" gives "", a list with "-" among others gives "(a|b)?" and any
\* other list gives "(a|b|c)", the tokens as they are in the list.
C6_Original ==
    (pc = "done" /\ op = "reconstruct" /\ AllKnown) =>
        result = Value(<<"^">> \o Groups(ret, FALSE) \o <<"$">>)

\* C6 amended: the same, the alternatives being the tokens in list order, each
\* with its "." characters removed.
C6_Regex ==
    (pc = "done" /\ op = "reconstruct" /\ AllKnown) =>
        result = Value(<<"^">> \o Groups(ret, TRUE) \o <<"$">>)

\* a position of only "-", and a position with "-" and a cluster among others
C6_Witness ==
    /\ pc = "done" /\ op = "reconstruct" /\ AllKnown
    /\ \E i \in 1..Len(ret) : ret[i] = << <<"-">> >>
    /\ \E i \in 1..Len(ret) :
          /\ <<"-">> \in Range(ret[i])
          /\ <<"o", ".", "u">> \in Range(ret[i])
    /\ result = Value(<<"^", "(", "e", "|", "o", "u", ")", "?", "$">>)

MissingReturned ==
    /\ pc = "done" /\ op \in {"read_sc", "adapt", "reconstruct"}
    /\ ~AllKnown

\* C16 as stated: with a token missing from scdict, adapt, reconstruct and
\* read_sc all return a value and raise nothing.
C16_Original == MissingReturned => result.kind = "value"

\* C16 amended: with a token missing from scdict, reconstruct returns the
\* " not old" string and raises nothing; read_sc and adapt raise KeyError.
C16_Missing ==
    MissingReturned =>
        /\ op = "reconstruct" =>
              result.kind = "value" /\ EndsWith(result.val, NOT_OLD)
        /\ op \in {"read_sc", "adapt"} => result = Raise("KeyError")

\* adapt called with a known and an unknown token
C16_Witness ==
    /\ MissingReturned /\ op = "adapt"
    /\ Len(ipa) = 2 /\ ipa[1] \in DOMAIN sc.scdict /\ ipa[2] \notin DOMAIN sc.scdict
    /\ result = Raise("KeyError")

\* ======================================================= claims on SpecFn
\* C7 as stated: list2regex([x]) is "(" + x + ")" for every token x other than
\* "-", cluster tokens with "." included.
C7_Original ==
    (pc = "done" /\ op = "list2regex" /\ Len(args.sclist) = 1
        /\ args.sclist[1] # <<"-">>) =>
        result = Value(<<"(">> \o args.sclist[1] \o <<")">>)

\* C7 amended: list2regex([x]) is "(" + x without its "." characters + ")" for
\* every token x other than "-"; so it is "(" + x + ")" exactly when x holds
\* no ".".
C7_Singleton ==
    (pc = "done" /\ op = "list2regex" /\ Len(args.sclist) = 1
        /\ args.sclist[1] # <<"-">>) =>
        LET x == args.sclist[1]
            bare == SelectSeq(x, LAMBDA ch : ch # ".")
        IN  /\ result = Value(<<"(">> \o bare \o <<")">>)
            /\ (result.val = <<"(">> \o x \o <<")">>) <=> ("." \notin Range(x))

\* a cluster token alone in the list
C7_Witness ==
    /\ pc = "done" /\ op = "list2regex"
    /\ args.sclist = << <<"k", ".", "v">> >>
    /\ result = Value(<<"(", "k", "v", ")">>)

\* s is a subsequence of t
RECURSIVE IsSubseq(_, _)
IsSubseq(s, t) ==
    IF s = <<>> THEN TRUE
    ELSE IF t = <<>> THEN FALSE
    ELSE IF s[1] = t[1] THEN IsSubseq(Tail(s), Tail(t))
    ELSE IsSubseq(s, Tail(t))

\* the letters of a at the positions in I, in order
Pick(a, I) == SelectSeq([i \in 1..Len(a) |-> IF i \in I THEN <<a[i]>> ELSE <<>>],
                        LAMBDA c : c # <<>>)

\* the length of a longest common subsequence of a and b
LCS(a, b) ==
    LET common == {Cardinality(I) : I \in {J \in SUBSET (1..Len(a)) :
                        IsSubseq([k \in 1..Len(Pick(a, J)) |-> Pick(a, J)[k][1]], b)}}
    IN  CHOOSE l \in common : \A k \in common : k <= l

HEY == <<"h", "e", "y">>

\* C8: edit_distance_with2ops(A, B, w_del, w_ins) is
\* (len(A) - L) * w_del + (len(B) - L) * w_ins, L the length of a longest
\* common subsequence; ("hey","hey") gives 0, ("hey","he") 100 and
\* ("hey","heyy") 49 with the weights 100 and 49.
C8_Distance ==
    (pc = "done" /\ op = "edit_distance_with2ops") =>
        LET A == args.string1
            B == args.string2
            L == LCS(A, B)
        IN  /\ result = Value((Len(A) - L) * args.w_del + (Len(B) - L) * args.w_ins)
            /\ (A = HEY /\ args.w_del = 100 /\ args.w_ins = 49) =>
                  /\ B = HEY => result.val = 0
                  /\ B = <<"h", "e">> => result.val = 100
                  /\ B = <<"h", "e", "y", "y">> => result.val = 49

\* the common subsequence is not a common prefix, and both weights count
C8_Witness ==
    /\ pc = "done" /\ op = "edit_distance_with2ops"
    /\ args.string1 = <<"h", "e", "y">> /\ args.string2 = <<"y", "h", "y">>
    /\ args.w_del = 100 /\ args.w_ins = 49
    /\ result = Value(149)

\* C9: edit_distance_with2ops(A, B, d, i) = edit_distance_with2ops(B, A, i, d).
C9_Symmetry ==
    (pc = "done" /\ op = "edit_distance_with2ops") =>
        result.val = edit_distance_with2ops(args.string2, args.string1,
                                            args.w_ins, args.w_del)

\* different lengths and different weights
C9_Witness ==
    /\ pc = "done" /\ op = "edit_distance_with2ops"
    /\ args.string1 = <<"h", "e", "y">> /\ args.string2 = <<"e">>
    /\ args.w_del = 100 /\ args.w_ins = 49
    /\ result = Value(200)
    /\ edit_distance_with2ops(<<"e">>, <<"h", "e", "y">>, 49, 100) = 200

\* ================================================== claims on SpecRepair
\* the class of a phoneme; the placeholders "C" and "V" count as themselves
ClassOf(token) == IF token \in {<<"t">>, <<"C">>} THEN "C" ELSE "V"

\* the shape of a sequence, recomputed
ShapeOf(word) == [i \in 1..Len(word) |-> ClassOf(word[i])]

\* the cost of turning a into b by deleting and inserting along a longest
\* common subsequence
Cost(a, b) ==
    (Len(a) - LCS(a, b)) * w_del_default + (Len(b) - LCS(a, b)) * w_ins_default

\* the shapes the repair may aim at: the first entry of the prosodic table, or
\* without one the inventory members closest to P
Targets(P) ==
    IF P \in DOMAIN sc.sc3 THEN {sc.sc3[P][1]}
    ELSE {m \in Range(prosodic_inventory) :
             \A n \in Range(prosodic_inventory) : Cost(P, m) <= Cost(P, n)}

RepairReturned == pc = "done" /\ op = "repair_phonotactics"

\* C10: repair_phonotactics(S, P), S of the shape P, returns a sequence whose
\* length is that of the predicted target shape T and whose recomputed shape
\* is T.
C10_RoundTrip ==
    RepairReturned =>
        /\ ShapeOf(args.ipalist) = args.prosody
        /\ result.kind = "value"
        /\ \E T \in Targets(args.prosody) :
              /\ Len(result.val) = Len(T)
              /\ ShapeOf(result.val) = T

\* a repair that keeps a phoneme, puts in a placeholder and changes the length
C10_Witness ==
    /\ RepairReturned
    /\ result.kind = "value"
    /\ Len(result.val) # Len(args.ipalist)
    /\ \E i \in 1..Len(result.val) : result.val[i] \in Range(args.ipalist)
    /\ \E i \in 1..Len(result.val) : result.val[i] \in {<<"C">>, <<"V">>}
    /\ ShapeOf(result.val)[1] # args.prosody[1]

\* ===================================================== claims on SpecEdit
EditReturned == pc = "done" /\ op = "apply_edit"

\* the first word of an operation
KindOf(operation) ==
    SubSeq(operation, 1, Index(operation, SP) - 1)

\* the symbol an insert or a substitute puts out: what follows the last blank
Operand(operation) ==
    LET blanks == Occurs(SP, operation)
        last == CHOOSE i \in blanks : \A k \in blanks : k <= i
    IN  SubSeq(operation, last + 1, Len(operation))

\* how many operations of the script are of one of the kinds
CountKinds(editops, kinds) ==
    Cardinality({i \in 1..Len(editops) : KindOf(editops[i]) \in kinds})

\* how many input symbols the script consumes
Consumed(editops) ==
    CountKinds(editops, {KEEP, DELETE})
    + CountKinds(SubSeq(editops, 1, Len(editops) - 1), {SUBSTITUTE})

\* the replay of a script over the rest of the input, operation by operation
RECURSIVE Replay(_, _)
Replay(rest, editops) ==
    IF editops = <<>> THEN <<>>
    ELSE LET kind == KindOf(editops[1])
             last == Len(editops) = 1
         IN  IF kind = KEEP THEN <<rest[1]>> \o Replay(Tail(rest), Tail(editops))
             ELSE IF kind = DELETE THEN Replay(Tail(rest), Tail(editops))
             ELSE IF kind = INSERT
             THEN <<Operand(editops[1])>> \o Replay(rest, Tail(editops))
             ELSE <<Operand(editops[1])>> \o
                  Replay(IF last THEN rest ELSE Tail(rest), Tail(editops))

\* C11: apply_edit replays the script in order over the input: keep consumes a
\* symbol and emits it, delete consumes one and emits nothing, insert emits its
\* symbol and consumes nothing, substitute emits its symbol and consumes one
\* unless it is the last operation; the output has #keep + #insert +
\* #substitute symbols, and apply_edit(l o, (substitute l by h, keep o)) is h o.
C11_Replay ==
    EditReturned =>
        /\ Consumed(args.editops) <= Len(args.word) =>
              /\ result = Value(Replay(args.word, args.editops))
              /\ Len(result.val) =
                     CountKinds(args.editops, {KEEP, INSERT, SUBSTITUTE})
        /\ (/\ args.word = << <<"l">>, <<"o">> >>
            /\ args.editops = << SUBSTITUTE \o SP \o <<"l">> \o BY_SEP \o <<"h">>,
                                 KEEP \o SP \o <<"o">> >>) =>
              result = Value(<< <<"h">>, <<"o">> >>)

\* a script of all four kinds whose last operation is a substitute
C11_Witness ==
    /\ EditReturned
    /\ args.word = << <<"l">>, <<"o">> >>
    /\ args.editops = << DELETE \o SP \o <<"l">>, KEEP \o SP \o <<"o">>,
                         SUBSTITUTE \o SP \o <<"l">> \o BY_SEP \o <<"h">> >>
    /\ result = Value(<< <<"o">>, <<"h">> >>)

\* C12: apply_edit raises no error when the script does not match the input
\* length; it returns normally.
C12_NoError == EditReturned => result.kind = "value"

\* ================================================== claims on SpecClosest
ClosestReturned == pc = "done" /\ op = "get_closest_phonotactics"

\* the inventory members at the least cost from struc
Closest(struc) ==
    {m \in Range(prosodic_inventory) :
        \A n \in Range(prosodic_inventory) : Cost(struc, m) <= Cost(struc, n)}

\* C13: get_closest_phonotactics(struc) returns a member of the inventory whose
\* distance from struc (deletion 100, insertion 49) is the least of all
\* members; a member two insertions away (98) wins over one a deletion away
\* (100).
C13_Closest ==
    ClosestReturned =>
        /\ result.val \in Closest(args.struc)
        /\ (/\ args.struc = <<"C", "V">>
            /\ Range(prosodic_inventory) = {<<"C">>, <<"C", "V", "C", "V">>}) =>
              result.val = <<"C", "V", "C", "V">>

\* two insertions against one deletion
C13_Witness ==
    /\ ClosestReturned
    /\ args.struc = <<"C", "V">>
    /\ prosodic_inventory = << <<"C">>, <<"C", "V", "C", "V">> >>
    /\ Cost(args.struc, <<"C">>) = 100
    /\ Cost(args.struc, <<"C", "V", "C", "V">>) = 98
    /\ result.val = <<"C", "V", "C", "V">>

\* the first of the closest members, in the order of the inventory
FirstClosest(struc) ==
    LET k == CHOOSE i \in 1..Len(prosodic_inventory) :
                 /\ prosodic_inventory[i] \in Closest(struc)
                 /\ \A n \in 1..(i - 1) : prosodic_inventory[n] \notin Closest(struc)
    IN  prosodic_inventory[k]

\* a comes before b as a string: it is a proper prefix of b, or at the first
\* place where they differ a holds "C" and b holds "V"
Before(a, b) ==
    \E k \in 1..Len(b) :
        /\ k - 1 <= Len(a)
        /\ SubSeq(a, 1, k - 1) = SubSeq(b, 1, k - 1)
        /\ \/ Len(a) = k - 1
           \/ Len(a) >= k /\ a[k] = "C" /\ b[k] = "V"

\* C14 as stated: among several closest members the one that comes first in
\* the inventory is returned.
C14_Original ==
    ClosestReturned => result.val = FirstClosest(args.struc)

\* C14 amended: among several closest members the one that comes first as a
\* string is returned, wherever it stands in the inventory; the inventory in
\* the opposite order gives the same result.
C14_StringOrder ==
    ClosestReturned =>
        /\ result.val \in Closest(args.struc)
        /\ \A m \in Closest(args.struc) : m = result.val \/ Before(result.val, m)
        /\ result.val =
              get_closest_phonotactics(Reverse(prosodic_inventory), args.struc)

\* two closest members, the second of the inventory is returned
C14_Witness ==
    /\ ClosestReturned
    /\ args.struc = <<"C", "V">>
    /\ prosodic_inventory = << <<"V">>, <<"C">> >>
    /\ Closest(args.struc) = {<<"V">>, <<"C">>}
    /\ result.val = <<"C">>

\* ==================================================== claims on SpecMiner
MinerReturned == pc = "done" /\ op = "get_sound_corresp"

\* the key and the value of a row joined by the connector of the mode
Joined(key, val) ==
    IF etym.mode = "adapt" THEN val \o etym.connector \o key
    ELSE key \o etym.connector \o val

\* the rows that carry the correspondence s
Carrying(s) ==
    {i \in 1..Len(etym.aligned) :
        Joined(etym.aligned[i].keys, etym.aligned[i].vals) = s}

RECURSIVE SumOver(_, _)
SumOver(f, S) ==
    IF S = {} THEN 0
    ELSE LET s == CHOOSE s \in S : TRUE IN f[s] + SumOver(f, S \ {s})

\* C17: in every table of the miner sedict and edict have the same keys, every
\* sedict value is the number of aligned rows that carry its correspondence,
\* and the values add up to the number of rows.
C17_SameKeys ==
    MinerReturned =>
        LET sedict == result.val.sedict
            edict == result.val.edict
        IN  /\ DOMAIN sedict = DOMAIN edict
            /\ \A s \in DOMAIN sedict : sedict[s] = Cardinality(Carrying(s))
            /\ \A i \in 1..Len(etym.aligned) :
                  Joined(etym.aligned[i].keys, etym.aligned[i].vals) \in DOMAIN sedict
            /\ SumOver(sedict, DOMAIN sedict) = Len(etym.aligned)

\* a correspondence met three times in one cognate set, next to another one
C17_Witness ==
    /\ MinerReturned
    /\ Len(etym.aligned) = 3
    /\ \E s \in DOMAIN result.val.sedict :
          result.val.sedict[s] = 2 /\ Len(result.val.edict[s]) = 1
    /\ Cardinality(DOMAIN result.val.sedict) = 2

\* the sedict key s is a connector-joined entry of the token key
EntryOf(s, key) ==
    IF etym.mode = "adapt" THEN EndsWith(s, etym.connector \o key)
    ELSE IsPrefix(key \o etym.connector, s)

\* sedict holds an entry of the token
Covered(key) == \E s \in DOMAIN result.val.sedict : EntryOf(s, key)

\* the keys of the aligned rows
MinedKeys == {etym.aligned[i].keys : i \in 1..Len(etym.aligned)}

\* C18 as stated: sedict holds a connector-joined entry for every token key of
\* scdict, also to adapt, once the heuristic table is merged in.
C18_Original ==
    MinerReturned => \A key \in DOMAIN result.val.scdict : Covered(key)

\* C18 amended: sedict holds a connector-joined entry for exactly those keys
\* of scdict that are keys of aligned rows, one for every value aligned with
\* the key; the keys that only the heuristic table brings in to adapt have no
\* entry; to reconstruct every key of scdict has one.
C18_Coverage ==
    MinerReturned =>
        /\ \A key \in DOMAIN result.val.scdict : Covered(key) <=> key \in MinedKeys
        /\ \A i \in 1..Len(etym.aligned) :
              LET row == etym.aligned[i]
              IN  /\ row.keys \in DOMAIN result.val.scdict
                  /\ Joined(row.keys, row.vals) \in DOMAIN result.val.sedict
                  /\ EntryOf(Joined(row.keys, row.vals), row.keys)
        /\ DOMAIN result.val.scdict = MinedKeys \cup
              (IF etym.mode = "adapt" THEN DOMAIN etym.scdictbase ELSE {})
        /\ etym.mode = "reconstruct" =>
              \A key \in DOMAIN result.val.scdict : Covered(key)

\* to adapt, a token that only the heuristic table holds
C18_Witness ==
    /\ MinerReturned
    /\ etym.mode = "adapt"
    /\ <<"c">> \in DOMAIN result.val.scdict
    /\ <<"c">> \notin MinedKeys
    /\ ~Covered(<<"c">>)
    /\ Covered(<<"a">>)

\* the three dicts are mined
Mined == pc \in {"mined", "done"} /\ op = "get_sound_corresp"

\* the rows that align the key with the value
RowsOf(key, val) ==
    {i \in 1..Len(etym.aligned) :
        etym.aligned[i].keys = key /\ etym.aligned[i].vals = val}

\* the values aligned with the key
ValuesOf(key) == {val \in RowVals : RowsOf(key, val) # {}}

\* the first row that aligns the key with the value
FirstRow(key, val) ==
    CHOOSE i \in RowsOf(key, val) : \A k \in RowsOf(key, val) : i <= k

\* C19: before the work of the mode, scdict[key] lists every value aligned
\* with the key once, those met more often first and of two met equally often
\* the one met first.
C19_MostCommon ==
    Mined =>
        /\ DOMAIN dicts.scdict = MinedKeys
        /\ \A key \in MinedKeys :
              LET l == dicts.scdict[key]
              IN  /\ Range(l) = ValuesOf(key)
                  /\ Len(l) = Cardinality(ValuesOf(key))
                  /\ \A i \in 1..Len(l) : \A j \in (i + 1)..Len(l) :
                        LET ni == Cardinality(RowsOf(key, l[i]))
                            nj == Cardinality(RowsOf(key, l[j]))
                        IN  \/ ni > nj
                            \/ ni = nj /\ FirstRow(key, l[i]) < FirstRow(key, l[j])

\* the value met first is met once, the one met after it twice
C19_Witness ==
    /\ Mined /\ pc = "mined"
    /\ Len(etym.aligned) = 3
    /\ \A i \in 1..3 : etym.aligned[i].keys = <<"a">>
    /\ etym.aligned[1].vals = <<"x">>
    /\ etym.aligned[2].vals = <<"y">> /\ etym.aligned[3].vals = <<"y">>
    /\ dicts.scdict[<<"a">>] = << <<"y">>, <<"x">> >>

\* the place of a candidate in a list that holds it
PlaceIn(l, v) == CHOOSE i \in 1..Len(l) : l[i] = v /\ \A k \in 1..(i - 1) : l[k] # v

\* the mined candidates of a key as adapt reads them: "C" and "V" are ""
Empirical(key) ==
    [j \in 1..Len(dicts.scdict[key]) |->
        IF dicts.scdict[key][j] \in {<<"C">>, <<"V">>} THEN <<>>
        ELSE dicts.scdict[key][j]]

Searching == pc \in {"loop", "tie"}

\* read_sc has returned what its loop committed, line 371
SearchReturned ==
    /\ pc = "done"
    /\ calls = 1
    /\ result.kind = "value"
    /\ sclistlist # <<>>
    /\ out # <<>>

STOP == <<"$">>

\* C21: in every state of a read_sc search and in read_sc's result, the
\* committed list of every position is a non-empty prefix of the token's
\* candidate list in scdict, and the sentinel "$" is neither committed nor
\* returned.
C21_Prefix ==
    /\ (Searching \/ SearchReturned) =>
           \A i \in 1..Len(ipa) :
               /\ out[i] # <<>>
               /\ IsPrefix(out[i], TableLists[i])
               /\ STOP \notin Range(out[i])
    /\ (ReadScReturned /\ result.kind = "value") =>
           \A i \in 1..Len(ipa) :
               /\ ret[i] # <<>>
               /\ IsPrefix(ret[i], TableLists[i])
               /\ STOP \notin Range(ret[i])

\* a search has returned after committing a second candidate somewhere, with a
\* candidate of some position left uncommitted
C21_Witness ==
    /\ SearchReturned
    /\ op = "read_sc"
    /\ ret = out
    /\ \E i \in 1..Len(ipa) : Len(ret[i]) >= 2
    /\ \E i \in 1..Len(ipa) : Len(ret[i]) < Len(TableLists[i])

\* C22 as the specification states it: remaining and committed candidates of a
\* position add up to the number of its candidates plus one.
C22_Original ==
    Searching =>
        \A i \in 1..Len(ipa) :
            Len(sclistlist[i]) + Len(out[i]) = Len(TableLists[i]) + 1

\* C22: in every state of the greedy loop of read_sc, for every position i,
\* len(remaining[i]) + len(committed[i]) is the number of the token's
\* candidates plus two: one for the sentinel and one for the candidate
\* committed last, which is still the head of remaining[i].
C22_Sum ==
    Searching =>
        \A i \in 1..Len(ipa) :
            /\ Len(sclistlist[i]) + Len(out[i]) = Len(TableLists[i]) + 2
            /\ sclistlist[i][1] = out[i][Len(out[i])]
            /\ sclistlist[i][Len(sclistlist[i])] = STOP

\* the loop is at its head after a commit
C22_Witness ==
    /\ pc = "loop"
    /\ whichsound # 0
    /\ Len(out[whichsound]) >= 2
    /\ Len(sclistlist[whichsound]) + Len(out[whichsound])
           = Len(TableLists[whichsound]) + 2

\* the occurrences recorded for the candidate that position i committed last
FirstCount(i) == Get(sc.sedict, ipa[i] \o <<" ">> \o sclistlist[i][1], 0)

\* only the sentinel is left to commit at position i
Exhausted(i) == Len(sclistlist[i]) <= 2

\* position i has data for its last candidate and a candidate left to commit
HasEvidence(i) == FirstCount(i) > 0 /\ ~Exhausted(i)

\* the step commits a candidate at position w
Expands(w) ==
    /\ Searching
    /\ Len(out') = Len(out)
    /\ Len(out'[w]) > Len(out[w])

\* C23: a position whose last committed candidate has no occurrences in
\* sedict is not expanded while another position has a last committed
\* candidate with occurrences and an uncommitted candidate other than the
\* sentinel; a position with only the sentinel left is never expanded.
C23_Freeze ==
    [][\A w \in 1..Len(out) :
          Expands(w) =>
              /\ ~Exhausted(w)
              /\ FirstCount(w) = 0 =>
                     ~\E j \in 1..Len(out) : j # w /\ HasEvidence(j)]_vars

\* a position has been expanded while another one, without data for its only
\* committed candidate and with candidates left, has not
C23_Witness ==
    /\ pc = "loop"
    /\ whichsound # 0
    /\ Len(out[whichsound]) >= 2
    /\ \E j \in 1..Len(out) :
          /\ j # whichsound
          /\ FirstCount(j) = 0
          /\ ~Exhausted(j)
          /\ Len(out[j]) = 1

\* C28: read_sc terminates: every iteration of the outer loop commits at
\* least one candidate (a tie is entered with the inner loop's condition
\* true), no commit is attempted on an exhausted position or once the
\* cross-product has reached howmany, the product never passes the full one,
\* and every search returns, with a product of at least howmany.
C28_Terminates ==
    /\ [][(pc = "loop" /\ pc' = "tie") =>
             (difflist2' = difflist' /\ more(howmany', out'))]_vars
    /\ [][\A w \in 1..Len(out) :
             Expands(w) => (~Exhausted(w) /\ more(howmany, out))]_vars
    /\ [](Searching =>
             /\ howmany < FullSize
             /\ prod(Lens(out)) <= FullSize)
    /\ []((ReadScReturned /\ out # <<>>) =>
             /\ result.kind = "value"
             /\ prod(Lens(ret)) >= howmany)
    /\ (Searching ~> (pc = "done" /\ result.kind = "value"))

\* a search with a tie has returned before the full product
C28_Witness ==
    /\ SearchReturned
    /\ idxpool # NoPool
    /\ ret = out
    /\ prod(Lens(ret)) >= howmany
    /\ prod(Lens(ret)) < FullSize
    /\ \E i \in 1..Len(ipa) : Len(ret[i]) >= 2

\* C30: read_sc is monotone in howmany: for the same table and tokens and
\* every larger howmany, each position's list of the result is a prefix of
\* the same position's list of the larger call's result.
C30_Monotone ==
    (ReadScReturned /\ result.kind = "value") =>
        /\ ret = read_sc(sc, ipa, howmany)
        /\ \A K2 \in howmany..MaxK :
               LET larger == read_sc(sc, ipa, K2)
               IN  \A i \in 1..Len(ipa) : IsPrefix(ret[i], larger[i])

\* a search has committed a second candidate somewhere, and a larger howmany
\* of the model gives more
C30_Witness ==
    /\ SearchReturned
    /\ ret = out
    /\ \E i \in 1..Len(ipa) : Len(ret[i]) >= 2
    /\ \E K2 \in howmany..MaxK :
          LET larger == read_sc(sc, ipa, K2)
          IN  /\ larger # ret
              /\ larger # TableLists

\* =================================================== claims on SpecScript
GraphReturned == pc = "done" /\ op = "mtx2graph"

\* the graph has an edge from u to v
HasEdge(graph, u, v) == \E k \in 1..Len(graph[u]) : graph[u][k][1] = v

\* the weight of the edge from u to v
WeightOf(graph, u, v) ==
    (CHOOSE e \in Range(graph[u]) : e[1] = v)[2]

\* the symbols that the step into cell (i + 1, j + 1) compares are the same:
\* symbol j + 1 of the target and symbol i + 1 of the source
SymbolsMatch(target, source, i, j) == target[j + 1] = source[i + 1]

\* C24: in the graph that mtx2graph builds from get_mtx(A, B), a diagonal
\* edge of weight 0 from cell (i, j) to cell (i + 1, j + 1) exists only where
\* matrix[i + 1][j + 1] = matrix[i][j] and symbol j + 1 of A is symbol i + 1
\* of B.
C24_KeepEdges ==
    GraphReturned =>
        \A i \in 0..(Len(args.source) - 1), j \in 0..(Len(args.target) - 1) :
            HasEdge(result.val, <<i, j>>, <<i + 1, j + 1>>) =>
                /\ WeightOf(result.val, <<i, j>>, <<i + 1, j + 1>>) = 0
                /\ args.matrix[i + 1][j + 1] = args.matrix[i][j]
                /\ SymbolsMatch(args.target, args.source, i, j)

SubstituteReturned == pc = "done" /\ op = "substitute_operations"

IsDelete(operation) == StartsWith(operation, DELETE \o SP)
IsInsert(operation) == StartsWith(operation, INSERT \o SP)

\* what follows the first word of a delete or an insert
Symbol(operation) == SubSeq(operation, Index(operation, SP) + 1, Len(operation))

\* the script with its adjacent pairs merged from left to right
RECURSIVE MergedPairs(_)
MergedPairs(operations) ==
    IF Len(operations) < 2 THEN operations
    ELSE IF IsDelete(operations[1]) /\ IsInsert(operations[2])
    THEN << SUBSTITUTE \o SP \o Symbol(operations[1]) \o BY_SEP \o
            Symbol(operations[2]) >> \o
         MergedPairs(SubSeq(operations, 3, Len(operations)))
    ELSE IF IsInsert(operations[1]) /\ IsDelete(operations[2])
    THEN << SUBSTITUTE \o SP \o Symbol(operations[2]) \o BY_SEP \o
            Symbol(operations[1]) >> \o
         MergedPairs(SubSeq(operations, 3, Len(operations)))
    ELSE <<operations[1]>> \o MergedPairs(Tail(operations))

\* C25: substitute_operations merges, from left to right, each delete X next
\* to an insert Y (in either order) into one substitute X by Y; the
\* operations without a partner stay as they are and in order, the result
\* has no delete next to an insert, and (insert A, delete B, insert C) gives
\* (substitute B by A, insert C).
C25_Merged ==
    SubstituteReturned =>
        /\ result.val = MergedPairs(args.operations)
        /\ \A k \in 1..(Len(result.val) - 1) :
               /\ ~(IsDelete(result.val[k]) /\ IsInsert(result.val[k + 1]))
               /\ ~(IsInsert(result.val[k]) /\ IsDelete(result.val[k + 1]))
        /\ args.operations = << INSERT \o SP \o <<"A">>,
                                DELETE \o SP \o <<"B">>,
                                INSERT \o SP \o <<"C">> >> =>
               result.val = << SUBSTITUTE \o SP \o <<"B">> \o BY_SEP \o <<"A">>,
                               INSERT \o SP \o <<"C">> >>

\* three operations in a row of which the first two were merged and the
\* third stayed
C25_Witness ==
    /\ SubstituteReturned
    /\ Len(args.operations) = 3
    /\ IsInsert(args.operations[1])
    /\ IsDelete(args.operations[2])
    /\ IsInsert(args.operations[3])
    /\ Len(result.val) = 2
    /\ StartsWith(result.val[1], SUBSTITUTE \o SP)
    /\ result.val[2] = args.operations[3]

DijkstraReturned == pc = "done" /\ op = "dijkstra"

\* the graph of the call
GraphOf(a) == mtx2graph(get_mtx(a.target, a.source), a.w_del, a.w_ins)

\* the sum of the weights along a path
RECURSIVE PathWeight(_, _)
PathWeight(graph, path) ==
    IF Len(path) < 2 THEN 0
    ELSE WeightOf(graph, path[1], path[2]) + PathWeight(graph, Tail(path))

\* how many operations of the script start with one of the words
CountStarting(editops, words) ==
    Cardinality({k \in 1..Len(editops) :
                    \E w \in words : StartsWith(editops[k], w \o SP)})

\* C29: for non-empty strings A and B and positive costs, the path that
\* dijkstra returns from (0, 0) to the bottom-right cell of
\* mtx2graph(get_mtx(A, B), w_del, w_ins) is a path of the graph whose weight
\* is edit_distance_with2ops(A, B, w_del, w_ins), and the script derived
\* from it has len(A) - LCS deletions and len(B) - LCS insertions, a
\* substitute counting as one of each.
C29_PathWeight ==
    DijkstraReturned =>
        LET A == args.target
            B == args.source
            graph == GraphOf(args)
            path == result.val.path
            script == tuples2editops(path, A, B)
            lcs == LCS(A, B)
        IN  /\ result.val.found
            /\ path[1] = <<0, 0>>
            /\ path[Len(path)] = <<Len(B), Len(A)>>
            /\ \A k \in 1..(Len(path) - 1) : HasEdge(graph, path[k], path[k + 1])
            /\ PathWeight(graph, path) =
                   edit_distance_with2ops(A, B, args.w_del, args.w_ins)
            /\ CountStarting(script, {DELETE, SUBSTITUTE}) = Len(A) - lcs
            /\ CountStarting(script, {INSERT, SUBSTITUTE}) = Len(B) - lcs
            /\ \A k \in 1..(Len(path) - 1) :
                   path[k + 1] = <<path[k][1] + 1, path[k][2] + 1>> =>
                       SymbolsMatch(A, B, path[k][1], path[k][2])

\* a path with a keep, a deletion and an insertion under unequal weights,
\* through a graph that has a diagonal edge between different symbols
C29_Witness ==
    /\ DijkstraReturned
    /\ result.val.found
    /\ args.w_del # args.w_ins
    /\ LCS(args.target, args.source) >= 1
    /\ LCS(args.target, args.source) < Len(args.target)
    /\ LCS(args.target, args.source) < Len(args.source)
    /\ \E i \in 0..(Len(args.source) - 1), j \in 0..(Len(args.target) - 1) :
          /\ HasEdge(GraphOf(args), <<i, j>>, <<i + 1, j + 1>>)
          /\ ~SymbolsMatch(args.target, args.source, i, j)

\* ==================================================== claims on SpecAlign
AlignReturned ==
    pc = "done" /\ op = "align_clusterwise" /\ result.kind = "value"

START == <<"#", "-">>
END == <<"-", "#">>

\* a list of clusters without the empty start and the end marker put around it
Unmarked(column, first, last) ==
    LET front == IF column[1] = first THEN Tail(column) ELSE column
    IN  IF front # <<>> /\ front[Len(front)] = last
        THEN SubSeq(front, 1, Len(front) - 1)
        ELSE front

\* the clusters of a column, the squeezed ones taken apart again
ClustersOf(column, first, last) ==
    LET kept == Unmarked(column, first, last)
    IN  IF kept = <<>> THEN <<>> ELSE split(join(SP, kept), " ")

C27_Tagged ==
    AlignReturned =>
        LET word == ClustersOf(result.val.keys, START, END)
        IN  /\ word # <<>>
            /\ StartsWith(word[1], HASH)
            /\ EndsWith(word[Len(word)], HASH)
====
